---- MODULE Spec2Model ----
(***************************************************************************)
(* A model of the trading system: the position store and trade log         *)
(* (database.py), the order fulfillment tracker (futu_trader.py) and the   *)
(* orchestrator's passes (strategy.py), driven in the call order of        *)
(* main.py.                                                                *)
(*                                                                         *)
(* Money is counted in cents, percentages in hundredths, so that the       *)
(* float comparisons of the source become integer comparisons.  Python's   *)
(* None is the value None; the empty string of _last_daily_check_date is   *)
(* NoDate.                                                                 *)
(***************************************************************************)
EXTENDS Integers, Sequences, FiniteSets, TLC

\* ------------------------------------------------------------------------
\* Bounds of the model
\* ------------------------------------------------------------------------
\* how many orders, restarts and midnights a run of the model has in all
MaxEvents == 2
\* the largest poll timeout, in seconds
MaxTimeout == 2

\* ------------------------------------------------------------------------
\* Program constants
\* ------------------------------------------------------------------------
None == -1
NoDate == 0
default_quantity == 100
TAKE_PROFIT_PCT == 15
STOP_LOSS_PCT == 8
ORDER_POLL_INTERVAL == 1

final_statuses ==
    {"FILLED_ALL", "FILLED_PART", "CANCELLED_ALL", "CANCELLED_PART", "FAILED", "DELETED"}

\* a variant of the test of line 189 that takes no status for final
IsFinalStatusNever(order_status) == FALSE

\* futu_trader.py line 189: "if order_status in final_statuses"
IsFinalStatus(order_status) == order_status \in final_statuses

\* ------------------------------------------------------------------------
\* The inputs the environment supplies
\* ------------------------------------------------------------------------
Tickers == {"BAC", "FHN"}
Dates == 1..(MaxEvents + 1)
\* config.MAX_POSITIONS as the environment may set it
MaxPositionsCfgs == {1, 2}
\* quotes and fill prices, in cents
Quotes == {90, 100, 120}
FillPrices == {100}
\* what the broker reports as a holding
BrokerQtys == {0, 50}
BrokerCosts == {103}
\* an order's status as the broker reports it
OrderStatuses == final_statuses \cup {"SUBMITTED"}

\* the quantities an order for q shares may have filled
FilledQtys(q) == {0, q} \cup (IF q > 1 THEN {q - (q \div 2)} ELSE {})

\* _get_order_status's dict, or None: any status with any filled quantity,
\* the average price being 0 exactly when nothing is filled
StatusInfos(q) ==
    { [status |-> s, filled_qty |-> f, avg_price |-> p] :
        s \in OrderStatuses, f \in FilledQtys(q), p \in FillPrices \cup {0} }

BrokerStatusInfos(q) ==
    { si \in StatusInfos(q) : (si.filled_qty = 0) <=> (si.avg_price = 0) }

\* ------------------------------------------------------------------------
\* database.py: the positions table, a sequence of rows in rowid order
\* ------------------------------------------------------------------------
Range(s) == { s[i] : i \in 1..Len(s) }

TickersOf(rows) == { rows[i].ticker : i \in 1..Len(rows) }

\* "if get_position(ticker):" -- whether the SELECT finds a row
has_position(rows, ticker) == ticker \in TickersOf(rows)

\* the row get_position returns when there is one
get_position(rows, ticker) == CHOOSE r \in Range(rows) : r.ticker = ticker

\* a variant of the count that finds the store empty
get_position_count_zero(rows) == 0

\* database.get_position_count (lines 170-175): SELECT COUNT(*) FROM positions
get_position_count(rows) == Len(rows)

NewRow(ticker, quantity, avg_cost, entry_date, ai_score, target_price, stop_loss) ==
    [ticker |-> ticker, quantity |-> quantity, avg_cost |-> avg_cost,
     entry_date |-> entry_date, entry_ai_score |-> ai_score,
     target_price |-> target_price, stop_loss |-> stop_loss]

\* whether an amount of cents is a whole number of dollars: the columns
\* declared DECIMAL(10,2) have NUMERIC affinity (lines 50-61), which stores
\* such a float as an INTEGER
WholeDollars(cents) == cents % 100 = 0

\* lines 125-126: (avg_cost * quantity + excluded.avg_cost * excluded.quantity)
\* / (quantity + excluded.quantity).  With two INTEGER costs every operand is
\* an INTEGER and "/" is SQLite's integer division, in dollars; with a REAL
\* cost it is a real division, kept here to the cent.
weighted_average(old_cost, old_quantity, avg_cost, quantity) ==
    IF WholeDollars(old_cost) /\ WholeDollars(avg_cost)
    THEN (((old_cost \div 100) * old_quantity + (avg_cost \div 100) * quantity)
             \div (old_quantity + quantity)) * 100
    ELSE (old_cost * old_quantity + avg_cost * quantity) \div (old_quantity + quantity)

\* INSERT ... ON CONFLICT(ticker) DO UPDATE: quantity and avg_cost only, both
\* computed from the row as it was.
OnConflictRow(r, quantity, avg_cost) ==
    [r EXCEPT !.quantity = r.quantity + quantity,
              !.avg_cost = IF r.quantity + quantity = 0 THEN r.avg_cost
                           ELSE weighted_average(r.avg_cost, r.quantity,
                                                 avg_cost, quantity)]

add_position(rows, ticker, quantity, avg_cost, entry_date, ai_score, target_price, stop_loss) ==
    IF ticker \in TickersOf(rows)
    THEN [i \in 1..Len(rows) |->
            IF rows[i].ticker = ticker
            THEN OnConflictRow(rows[i], quantity, avg_cost)
            ELSE rows[i]]
    ELSE Append(rows, NewRow(ticker, quantity, avg_cost, entry_date, ai_score,
                             target_price, stop_loss))

remove_position(rows, ticker) ==
    LET Keep(r) == r.ticker # ticker IN SelectSeq(rows, Keep)

\* a variant of update_position that leaves avg_cost as it was
update_position_keeps_cost(rows, ticker, quantity, avg_cost) ==
    [i \in 1..Len(rows) |->
        IF rows[i].ticker = ticker
        THEN [rows[i] EXCEPT !.quantity = quantity]
        ELSE rows[i]]

update_position(rows, ticker, quantity, avg_cost) ==
    [i \in 1..Len(rows) |->
        IF rows[i].ticker = ticker
        THEN [rows[i] EXCEPT !.quantity = quantity, !.avg_cost = avg_cost]
        ELSE rows[i]]

\* a variant of _update_position_quantity that deletes the row
update_position_quantity_removes(rows, ticker, new_quantity, avg_cost) ==
    remove_position(rows, ticker)

\* strategy.py _update_position_quantity: UPDATE positions SET quantity = ?
update_position_quantity(rows, ticker, new_quantity, avg_cost) ==
    [i \in 1..Len(rows) |->
        IF rows[i].ticker = ticker
        THEN [rows[i] EXCEPT !.quantity = new_quantity]
        ELSE rows[i]]

\* a variant of log_trade that keeps one row per ticker
log_trade_one_per_ticker(log, ticker, action, quantity, price, ai_score, reason, order_id) ==
    Append(SelectSeq(log, LAMBDA t : t.ticker # ticker),
           [ticker |-> ticker, action |-> action, quantity |-> quantity,
            price |-> price, total_amount |-> quantity * price,
            ai_score |-> ai_score, reason |-> reason, order_id |-> order_id])

\* database.log_trade (lines 86-107): one INSERT into trades
log_trade(log, ticker, action, quantity, price, ai_score, reason, order_id) ==
    Append(log, [ticker |-> ticker, action |-> action, quantity |-> quantity,
                 price |-> price, total_amount |-> quantity * price,
                 ai_score |-> ai_score, reason |-> reason, order_id |-> order_id])

\* Python truthiness of an Optional number: None and 0 are falsy
Truthy(x) == x # None /\ x # 0

\* ------------------------------------------------------------------------
\* futu_trader.py: what _wait_for_order_fill returns, by return site
\* ------------------------------------------------------------------------
\* a variant of the return of lines 190-204 with the timeout's partial_fill
FillInfoFinalUnderfilled(si, requested_qty) ==
    [filled_qty |-> si.filled_qty, avg_price |-> si.avg_price,
     partial_fill |-> (si.filled_qty < requested_qty),
     status |-> si.status]

\* lines 189-204: a final status seen inside the loop
FillInfoFinal(si, requested_qty) ==
    [filled_qty |-> si.filled_qty, avg_price |-> si.avg_price,
     partial_fill |-> (si.filled_qty > 0 /\ si.filled_qty < requested_qty),
     status |-> si.status]

\* a variant of the return of lines 212-217 that drops what the query said
FillInfoTimeoutDropped(si, requested_qty) ==
    [filled_qty |-> 0, avg_price |-> 0, partial_fill |-> FALSE, status |-> si.status]

\* lines 210-217: the query made after the timeout returned data
FillInfoTimeout(si, requested_qty) ==
    [filled_qty |-> si.filled_qty, avg_price |-> si.avg_price,
     partial_fill |-> (si.filled_qty < requested_qty),
     status |-> si.status]

\* a variant of the return of lines 219-224 that reports a failed order
FillInfoUnknownAsFailed ==
    [filled_qty |-> 0, avg_price |-> 0, partial_fill |-> FALSE, status |-> "FAILED"]

\* lines 219-224: the query made after the timeout returned nothing
FillInfoUnknown ==
    [filled_qty |-> 0, avg_price |-> 0, partial_fill |-> FALSE, status |-> "UNKNOWN"]

\* every fill_info the tracker can hand to place_order for an order of q shares
FillInfos(q) ==
    { FillInfoFinal(si, q) : si \in { x \in BrokerStatusInfos(q) : IsFinalStatus(x.status) } }
    \cup { FillInfoTimeout(si, q) : si \in BrokerStatusInfos(q) }
    \cup { FillInfoUnknown }

\* place_order, lines 279-303: the OrderResult built from the tracker's fill_info
OrderResultOf(order_id, quantity, fill_info) ==
    IF fill_info.filled_qty > 0
    THEN [success |-> TRUE, order_id |-> order_id, price |-> fill_info.avg_price,
          quantity |-> quantity, filled_quantity |-> fill_info.filled_qty,
          partial_fill |-> fill_info.partial_fill,
          message |-> IF fill_info.partial_fill
                      THEN [text |-> "Filled", status |-> "-"]
                      ELSE [text |-> "None", status |-> "-"]]
    ELSE [success |-> FALSE, order_id |-> order_id, price |-> None,
          quantity |-> None, filled_quantity |-> 0, partial_fill |-> FALSE,
          message |-> [text |-> "Order not filled", status |-> fill_info.status]]

\* a variant of the result of lines 313-319 that reports a fill
OrderResultRejectedAsFilled ==
    [success |-> TRUE, order_id |-> None, price |-> 100, quantity |-> 1,
     filled_quantity |-> 1, partial_fill |-> FALSE,
     message |-> [text |-> "None", status |-> "-"]]

\* place_order, lines 313-319: the broker refused the order, or the call raised
OrderResultRejected ==
    [success |-> FALSE, order_id |-> None, price |-> None, quantity |-> None,
     filled_quantity |-> None, partial_fill |-> FALSE,
     message |-> [text |-> "rejected", status |-> "-"]]

\* every OrderResult place_order can return for an order of q shares, each with
\* the status the tracker ended in ("REJECTED" when no order was accepted)
PlaceOrderOutcomes(order_id, q) ==
    { [result |-> OrderResultOf(order_id, q, fi), status |-> fi.status] : fi \in FillInfos(q) }
    \cup { [result |-> OrderResultRejected, status |-> "REJECTED"] }

\* ------------------------------------------------------------------------
\* telegram_bot.py: the notifications, as the records the operator receives
\* ------------------------------------------------------------------------
notify_trade(ticker, action, quantity, price, reason, partial) ==
    [kind |-> "trade", ticker |-> ticker, action |-> action, quantity |-> quantity,
     price |-> price, reason |-> reason, partial |-> partial]

notify_signal(ticker, signal_type) ==
    [kind |-> "signal", ticker |-> ticker, action |-> signal_type]

\* notify_error(f"{text} for {ticker}: {message}")
notify_error(text, ticker, message) ==
    [kind |-> "error", text |-> text, ticker |-> ticker, message |-> message]

\* ------------------------------------------------------------------------
\* The state
\* ------------------------------------------------------------------------
VARIABLES
    positions,               \* database: the positions table
    trades,                  \* database: the trades table
    ai_score_history,        \* database: the ai_score_history table
    last_daily_check_date,   \* TradingStrategy._last_daily_check_date
    max_positions,           \* config.MAX_POSITIONS, read from the environment
    today,                   \* the calendar date datetime.now() gives
    pc,                      \* where the process is
    caller,                  \* who called the running pass: "startup" or "schedule"
    todo,                    \* what the running loop has still to iterate over
    restarts,                \* how often the process was started again
    notified,                \* history: what the last step asked the notifier to send
    nOrders,                 \* history: how many orders were submitted
    lastOrder,               \* history: the order the last step submitted, and
                             \*          its result (NoOrder when it submitted none)
    unknownPending,          \* history: tickers with an UNKNOWN order since the
                             \*          last position sync
    lastCall,                \* history: how the call of run_daily_check ended
                             \*          that the last step made ("-" for none)
    runs,                    \* history: pipeline executions today, this process
    aborted,                 \* history: dates a daily pass aborted, this process
    completed,               \* history: dates a daily pass completed, any process
    lastSync,                \* history: the broker rows and report of the sync
                             \*          that has just returned
    raised,                  \* history: what became of an exception in the last
                             \*          step: "-" (none), "caught" by the handler
                             \*          of a loop body, "escaped" from the pass
    pollPc, timeout, requested_qty, elapsed, status_info, fill_info, pollLog,
    stop_loss_pct,           \* TradingStrategy.stop_loss_pct, in hundredths
    take_profit_pct,         \* TradingStrategy.take_profit_pct, in hundredths
    analysis,                \* history: the call of analyze_ticker or get_score
                             \*          the last step made, what it fetched and
                             \*          what it returned (NoAnalysis when it made
                             \*          none)
    env,                     \* which of the required settings the environment
                             \*          of the process sets (config.py 13, 17, 18)
    attempt,                 \* connect_with_retry: the attempts made
    connected,               \* futu_trader holds its two contexts (connect
                             \*          succeeded, futu_trader.py 61-66)
    fatal                    \* how main() ended before the main loop: "-" (it has
                             \*          not), "config", "broker", "traceback"

orchVars == <<positions, trades, ai_score_history, last_daily_check_date,
              max_positions, today, pc, caller, todo, restarts, notified, nOrders,
              lastOrder, unknownPending, lastCall, runs, aborted, completed, lastSync,
              raised>>
pollVars == <<pollPc, timeout, requested_qty, elapsed, status_info, fill_info, pollLog>>
sigVars == <<stop_loss_pct, take_profit_pct, analysis>>
mainVars == <<env, attempt, connected, fatal>>
vars == <<orchVars, pollVars, sigVars, mainVars>>

NoSync == [done |-> FALSE]

\* analyze_ticker was not called
NoAnalysis == [op |-> "-"]

\* the step made no call of analyze_ticker; the thresholds are set once, by
\* __init__
NoAnalysisMade ==
    /\ analysis' = NoAnalysis
    /\ UNCHANGED <<stop_loss_pct, take_profit_pct>>

\* ------------------------------------------------------------------------
\* strategy.py: the thresholds of run_price_check and _check_sell_signal
\* ------------------------------------------------------------------------
\* current_price <= avg_cost * (1 - stop_loss_pct), pct in hundredths
StopLossHitAt(current_price, avg_cost, pct) ==
    current_price * 100 <= avg_cost * (100 - pct)

\* current_price >= avg_cost * (1 + take_profit_pct), pct in hundredths
TakeProfitHitAt(current_price, avg_cost, pct) ==
    current_price * 100 >= avg_cost * (100 + pct)

\* current_price <= avg_cost * (1 - stop_loss_pct)
StopLossHit(current_price, avg_cost) ==
    StopLossHitAt(current_price, avg_cost, STOP_LOSS_PCT)

\* current_price >= avg_cost * (1 + take_profit_pct)
TakeProfitHit(current_price, avg_cost) ==
    TakeProfitHitAt(current_price, avg_cost, TAKE_PROFIT_PCT)

\* _execute_buy's target and stop loss, in hundredths of a cent
TargetPriceOf(price) == price * (100 + TAKE_PROFIT_PCT)
StopLossOf(price) == price * (100 - STOP_LOSS_PCT)

\* database.save_ai_score: one row per (date, ticker), overwritten on conflict
save_ai_score(history, date, ticker, ai_score) ==
    { h \in history : ~(h.date = date /\ h.ticker = ticker) }
    \cup { [date |-> date, ticker |-> ticker, ai_score |-> ai_score] }

\* the history entry of an order: what was asked, and how it ended
OrderEntry(ticker, side, quantity, outcome) ==
    [ticker |-> ticker, side |-> side, quantity |-> quantity,
     result |-> outcome.result, status |-> outcome.status]

NoOrder ==
    [ticker |-> "-", side |-> "-", quantity |-> 0,
     result |-> OrderResultRejected, status |-> "-"]

\* an order was submitted and place_order has returned
OrderSubmitted(entry) ==
    /\ nOrders' = nOrders + 1
    /\ lastOrder' = entry
    /\ unknownPending' =
         IF entry.status = "UNKNOWN" THEN unknownPending \cup {entry.ticker}
         ELSE unknownPending

\* the orders, restarts and midnights so far
Events == nOrders + restarts + (today - 1)

NoOrderSubmitted ==
    /\ lastOrder' = NoOrder
    /\ UNCHANGED <<nOrders, unknownPending>>

\* the step made no call of run_daily_check
NoDailyCall == lastCall' = "-"

\* a variant of the handlers of the loop bodies that gives the batch up
AfterCaughtAborts(rest) == <<>>

\* lines 479-480, 535-536, 576-577: the handler of a loop body logs the
\* exception; the for loop goes on with the tickers that are left
AfterCaught(rest) == rest

\* a variant of main() that goes to the initial check without the sync
AfterStartupSkipsSync == "synced"

\* main.py lines 101-136 are done: the process stands before the sync of
\* line 139
AfterStartup == "start"

\* no exception in the step; one that the "except Exception" of a loop body
\* logged; one that left the pass
NoneRaised == raised' = "-"
Caught == raised' = "caught"
Escaped == raised' = "escaped"

\* ------------------------------------------------------------------------
\* strategy.py: sync_positions_with_broker
\* ------------------------------------------------------------------------
\* what the position query may return: rows for any subset of the tickers,
\* the quantity as the broker reports it (0 for a holding sold out)
BrokerRows == [quantity : BrokerQtys, avg_cost : BrokerCosts]
BrokerReports == UNION { [S -> BrokerRows] : S \in SUBSET Tickers }

\* a variant of get_positions that returns the rows although the query failed
get_positions_despite_failure(queryOk, report) == report

\* futu_trader.get_positions (lines 329-350): the rows of the query, or the
\* empty list when there is no connection, the query fails or it raises
get_positions(queryOk, report) ==
    IF queryOk THEN report ELSE [t \in {} |-> report[t]]

\* the orders in which a set can be iterated
Perms(S) ==
    { q \in [1..Cardinality(S) -> S] :
        \A i, j \in 1..Cardinality(S) : i # j => q[i] # q[j] }

AbsDiff(a, b) == IF a >= b THEN a - b ELSE b - a

\* lines 69-80: rows of the broker that the store lacks are inserted
RECURSIVE AddMissing(_, _, _, _)
AddMissing(rows, order, broker_map, date) ==
    IF order = <<>> THEN rows
    ELSE AddMissing(
            add_position(rows, Head(order), broker_map[Head(order)].quantity,
                         broker_map[Head(order)].avg_cost, date, None, None, None),
            Tail(order), broker_map, date)

\* lines 83-89: rows of the store that the broker lacks are deleted
RECURSIVE RemoveStale(_, _)
RemoveStale(rows, order) ==
    IF order = <<>> THEN rows
    ELSE RemoveStale(remove_position(rows, Head(order)), Tail(order))

\* a variant of the test of line 103 that finds every common ticker changed
NeedsUpdateAlways(broker_pos, local_pos) == TRUE

\* line 103: a common ticker differs in quantity, or in cost by more than 0.01
NeedsUpdate(broker_pos, local_pos) ==
    broker_pos.quantity # local_pos.quantity
    \/ AbsDiff(broker_pos.avg_cost, local_pos.avg_cost) > 1

\* lines 92-109
RECURSIVE UpdateCommon(_, _, _, _)
UpdateCommon(rows, order, broker_map, local_map) ==
    IF order = <<>> THEN rows
    ELSE UpdateCommon(
            IF NeedsUpdate(broker_map[Head(order)], local_map[Head(order)])
            THEN update_position(rows, Head(order), broker_map[Head(order)].quantity,
                                 broker_map[Head(order)].avg_cost)
            ELSE rows,
            Tail(order), broker_map, local_map)

\* the whole of sync_positions_with_broker on the rows of the store: the new
\* rows and the three lists of the report
SyncResult(rows, broker_map, addOrder, removeOrder, commonOrder, date) ==
    LET local_map == [t \in TickersOf(rows) |-> get_position(rows, t)]
        afterAdd == AddMissing(rows, addOrder, broker_map, date)
        afterRemove == RemoveStale(afterAdd, removeOrder)
        afterUpdate == UpdateCommon(afterRemove, commonOrder, broker_map, local_map)
    IN  [rows |-> afterUpdate,
         added |-> Range(addOrder),
         removed |-> Range(removeOrder),
         updated |-> { t \in Range(commonOrder) :
                         NeedsUpdate(broker_map[t], local_map[t]) }]

\* lines 112-120: the report of a sync that changed something
SyncNotified(added, removed, updated) ==
    IF added # {} \/ removed # {} \/ updated # {}
    THEN << [kind |-> "error", text |-> "Position sync",
             added |-> added, removed |-> removed, updated |-> updated] >>
    ELSE <<>>

\* main.py line 139: the sync made at startup, before any pass
SyncPositionsWithBroker ==
    /\ pc = "start"
    /\ \E report \in BrokerReports, queryOk \in BOOLEAN :
         LET broker_map == get_positions(queryOk, report)
             broker_tickers == DOMAIN broker_map
             local_tickers == TickersOf(positions)
         IN  \E addOrder \in Perms(broker_tickers \ local_tickers),
                removeOrder \in Perms(local_tickers \ broker_tickers),
                commonOrder \in Perms(broker_tickers \cap local_tickers) :
               LET r == SyncResult(positions, broker_map, addOrder, removeOrder,
                                   commonOrder, today)
               IN  /\ positions' = r.rows
                   /\ notified' = SyncNotified(r.added, r.removed, r.updated)
                   /\ lastSync' = [done |-> TRUE, broker |-> broker_map,
                                   query_failed |-> ~queryOk,
                                   added |-> r.added, removed |-> r.removed,
                                   updated |-> r.updated]
    /\ pc' = "synced"
    /\ unknownPending' = {}
    /\ lastOrder' = NoOrder
    /\ NoneRaised
    /\ UNCHANGED <<trades, ai_score_history, last_daily_check_date, max_positions,
                   today, caller, todo, restarts, nOrders, runs, aborted,
                   completed>>
    /\ NoDailyCall
    /\ NoAnalysisMade
    /\ UNCHANGED mainVars
    /\ UNCHANGED pollVars

\* the store writes a sync makes, in the order it makes them: the inserts of
\* lines 72-79, the deletes of lines 86-88, the updates of lines 93-105
SyncWrites(rows, broker_map, addOrder, removeOrder, commonOrder) ==
    LET local_map == [t \in TickersOf(rows) |-> get_position(rows, t)]
        Differs(t) == NeedsUpdate(broker_map[t], local_map[t])
    IN  [i \in 1..Len(addOrder) |-> [op |-> "add", ticker |-> addOrder[i]]]
        \o [i \in 1..Len(removeOrder) |-> [op |-> "remove", ticker |-> removeOrder[i]]]
        \o [i \in 1..Len(SelectSeq(commonOrder, Differs)) |->
              [op |-> "update", ticker |-> SelectSeq(commonOrder, Differs)[i]]]

\* the rows after the writes ws have been made
RECURSIVE ApplyWrites(_, _, _, _)
ApplyWrites(rows, ws, broker_map, date) ==
    IF ws = <<>> THEN rows
    ELSE LET w == Head(ws)
             t == w.ticker
         IN  ApplyWrites(
                IF w.op = "add"
                THEN add_position(rows, t, broker_map[t].quantity,
                                  broker_map[t].avg_cost, date, None, None, None)
                ELSE IF w.op = "remove"
                THEN remove_position(rows, t)
                ELSE update_position(rows, t, broker_map[t].quantity,
                                     broker_map[t].avg_cost),
                Tail(ws), broker_map, date)

\* the sync of main.py line 139 when the store raises: at the read of line 59
\* (k = 0) or at the k-th write.  Nothing in sync_positions_with_broker or
\* around its call catches the exception: the writes made so far stay, the
\* rest is not made, main() ends.
SyncPositionsWithBrokerRaises ==
    /\ pc = "start"
    /\ \E broker_map \in BrokerReports :
         LET broker_tickers == DOMAIN broker_map
             local_tickers == TickersOf(positions)
         IN  \E addOrder \in Perms(broker_tickers \ local_tickers),
                removeOrder \in Perms(local_tickers \ broker_tickers),
                commonOrder \in Perms(broker_tickers \cap local_tickers) :
               LET ws == SyncWrites(positions, broker_map, addOrder, removeOrder,
                                    commonOrder)
               IN  \E k \in 0..Len(ws) :
                     /\ positions' =
                          IF k = 0 THEN positions
                          ELSE ApplyWrites(positions, SubSeq(ws, 1, k - 1),
                                           broker_map, today)
                     /\ lastSync' =
                          [done |-> FALSE, broker |-> broker_map,
                           failed |-> IF k = 0 THEN "-" ELSE ws[k].ticker,
                           skipped |-> { ws[j].ticker : j \in (k + 1)..Len(ws) }]
    /\ pc' = "exited"
    /\ notified' = <<>>
    /\ NoOrderSubmitted
    /\ Escaped
    /\ UNCHANGED <<trades, ai_score_history, last_daily_check_date, max_positions,
                   today, caller, todo, restarts, runs, aborted, completed>>
    /\ NoDailyCall
    /\ NoAnalysisMade
    /\ UNCHANGED mainVars
    /\ UNCHANGED pollVars

\* ------------------------------------------------------------------------
\* strategy.py: _execute_buy and _execute_sell, given place_order's result
\* ------------------------------------------------------------------------
SELL_SCORE_THRESHOLD == 7

\* what the scoring feed returns
Scores == {5, 10}
TopLists == UNION { Perms(S) : S \in SUBSET Tickers }

\* a variant of _execute_buy that books the requested quantity
execute_buy_requested(st, signal, quantity, result, date) ==
    IF result.success /\ Truthy(result.price) /\ Truthy(result.filled_quantity)
    THEN [positions |->
            add_position(st.positions, signal.ticker, quantity,
                         result.price, date, signal.ai_score,
                         TargetPriceOf(result.price), StopLossOf(result.price)),
          trades |->
            log_trade(st.trades, signal.ticker, "BUY", quantity,
                      result.price, signal.ai_score, signal.reason, result.order_id),
          notified |->
            Append(st.notified,
                   notify_trade(signal.ticker, "BUY", quantity,
                                result.price, signal.reason, result.partial_fill))]
    ELSE [positions |-> st.positions,
          trades |-> st.trades,
          notified |->
            Append(st.notified,
                   notify_error("Buy order failed", signal.ticker, result.message))]

\* lines 276-322.  st is the store, and what the step has notified so far.
execute_buy(st, signal, quantity, result, date) ==
    IF result.success /\ Truthy(result.price) /\ Truthy(result.filled_quantity)
    THEN [positions |->
            add_position(st.positions, signal.ticker, result.filled_quantity,
                         result.price, date, signal.ai_score,
                         TargetPriceOf(result.price), StopLossOf(result.price)),
          trades |->
            log_trade(st.trades, signal.ticker, "BUY", result.filled_quantity,
                      result.price, signal.ai_score, signal.reason, result.order_id),
          notified |->
            Append(st.notified,
                   notify_trade(signal.ticker, "BUY", result.filled_quantity,
                                result.price, signal.reason, result.partial_fill))]
    ELSE [positions |-> st.positions,
          trades |-> st.trades,
          notified |->
            Append(st.notified,
                   notify_error("Buy order failed", signal.ticker, result.message))]

\* lines 338-381.  position is the row read at line 327.
execute_sell(st, signal, position, result) ==
    IF result.success /\ Truthy(result.price) /\ Truthy(result.filled_quantity)
    THEN [positions |->
            IF result.partial_fill
            THEN update_position_quantity(st.positions, signal.ticker,
                                          position.quantity - result.filled_quantity,
                                          position.avg_cost)
            ELSE remove_position(st.positions, signal.ticker),
          trades |->
            log_trade(st.trades, signal.ticker, "SELL", result.filled_quantity,
                      result.price, signal.ai_score, signal.reason, result.order_id),
          notified |->
            Append(st.notified,
                   notify_trade(signal.ticker, "SELL", result.filled_quantity,
                                result.price, signal.reason, result.partial_fill))]
    ELSE [positions |-> st.positions,
          trades |-> st.trades,
          notified |->
            Append(st.notified,
                   notify_error("Sell order failed", signal.ticker, result.message))]

\* lines 276 and 338: whether the order's result is booked
Books(result) ==
    result.success /\ Truthy(result.price) /\ Truthy(result.filled_quantity)

\* the store as a step finds it; the step has notified nothing yet
Store == [positions |-> positions, trades |-> trades, notified |-> <<>>]

\* a step that leaves the store alone and sends nothing
NothingDone ==
    /\ notified' = <<>>
    /\ NoOrderSubmitted
    /\ UNCHANGED <<positions, trades>>

\* how the store writes of a booked order end: both commit, the position write
\* raises, or the position write commits and log_trade raises (each function
\* of database.py opens its own connection and commits on its own)
StoreWrites == {"ok", "position", "trade"}

\* execute_signal with a BUY signal: _execute_buy orders default_quantity
\* shares and books the result
ExecuteBuySignal(st, signal) ==
    /\ Events < MaxEvents
    /\ \E outcome \in PlaceOrderOutcomes(nOrders + 1, default_quantity),
          write \in StoreWrites :
         LET out == execute_buy(st, signal, default_quantity,
                                outcome.result, today) IN
         /\ IF write = "ok"
            THEN /\ positions' = out.positions
                 /\ trades' = out.trades
                 /\ notified' = out.notified
                 /\ NoneRaised
            ELSE IF write = "position"
            THEN \* add_position raises (line 283): nothing is booked or sent,
                 \* the exception goes to the handler of the loop body
                 /\ Books(outcome.result)
                 /\ UNCHANGED <<positions, trades>>
                 /\ notified' = st.notified
                 /\ Caught
            ELSE \* log_trade raises (line 291) after add_position committed
                 /\ Books(outcome.result)
                 /\ positions' = out.positions
                 /\ UNCHANGED trades
                 /\ notified' = st.notified
                 /\ Caught
         /\ OrderSubmitted(OrderEntry(signal.ticker, "BUY", default_quantity, outcome))

\* execute_signal with a SELL signal: _execute_sell reads the position, sells
\* all of it and books the result; no position, no order (lines 327-331)
ExecuteSellSignal(st, signal) ==
    \E readOk \in BOOLEAN :
    IF ~readOk
    THEN \* get_position raises (line 327), before any order
         /\ notified' = st.notified
         /\ NoOrderSubmitted
         /\ UNCHANGED <<positions, trades>>
         /\ Caught
    ELSE IF ~has_position(positions, signal.ticker)
    THEN /\ notified' = st.notified
         /\ NoOrderSubmitted
         /\ UNCHANGED <<positions, trades>>
         /\ NoneRaised
    ELSE LET position == get_position(positions, signal.ticker) IN
         /\ Events < MaxEvents
         /\ \E outcome \in PlaceOrderOutcomes(nOrders + 1, position.quantity),
               write \in StoreWrites :
              LET out == execute_sell(st, signal, position, outcome.result) IN
              /\ IF write = "ok"
                 THEN /\ positions' = out.positions
                      /\ trades' = out.trades
                      /\ notified' = out.notified
                      /\ NoneRaised
                 ELSE IF write = "position"
                 THEN \* the UPDATE or DELETE raises (lines 345, 349): nothing is
                      \* booked or sent
                      /\ Books(outcome.result)
                      /\ UNCHANGED <<positions, trades>>
                      /\ notified' = st.notified
                      /\ Caught
                 ELSE \* log_trade raises (line 351) after the UPDATE or DELETE
                      \* committed
                      /\ Books(outcome.result)
                      /\ positions' = out.positions
                      /\ UNCHANGED trades
                      /\ notified' = st.notified
                      /\ Caught
              /\ OrderSubmitted(OrderEntry(signal.ticker, "SELL", position.quantity,
                                           outcome))

\* ------------------------------------------------------------------------
\* strategy.py: run_daily_check
\* ------------------------------------------------------------------------
\* a variant of the guard that lets every call through
AlreadyRanTodayNever(date, last_date) == FALSE

\* lines 400-401: the guard; today's date against the date it remembers
AlreadyRanToday(date, last_date) == date = last_date

\* line 404: what the guard remembers once it lets a call through
GuardAfterRun(date, last_date) == date

\* where an exception out of a pass leaves the process: back in the main loop
\* (main.py lines 151-154), or, from the call of line 143, out of main()
AfterAbort == IF caller = "startup" THEN "exited" ELSE "idle"

\* the call is skipped: nothing but the log line (lines 401-403)
RunDailyCheckSkip ==
    /\ pc \in {"synced", "idle"}
    /\ AlreadyRanToday(today, last_daily_check_date)
    /\ pc' = "idle"
    /\ caller' = IF pc = "synced" THEN "startup" ELSE "schedule"
    /\ lastCall' = "skipped"
    /\ lastSync' = NoSync
    /\ NothingDone
    /\ NoneRaised
    /\ UNCHANGED <<ai_score_history, last_daily_check_date, max_positions, today,
                   todo, restarts, runs, aborted, completed>>
    /\ NoAnalysisMade
    /\ UNCHANGED mainVars
    /\ UNCHANGED pollVars

\* the call runs: the date is recorded (line 404), then _check_buy_signals
\* fetches the top stocks (lines 421-427); an empty list ends the buy check
RunDailyCheckRun ==
    /\ pc \in {"synced", "idle"}
    /\ ~AlreadyRanToday(today, last_daily_check_date)
    /\ last_daily_check_date' = GuardAfterRun(today, last_daily_check_date)
    /\ caller' = IF pc = "synced" THEN "startup" ELSE "schedule"
    /\ lastCall' = "ran"
    /\ runs' = runs + 1
    /\ lastSync' = NoSync
    /\ \E top \in TopLists :
         /\ todo' = [i \in 1..Len(top) |->
                       [ticker |-> top[i], ai_score |-> 10, target_price |-> None]]
         /\ pc' = IF top = <<>> THEN "sell_start" ELSE "buy"
    /\ NothingDone
    /\ NoneRaised
    /\ UNCHANGED <<ai_score_history, max_positions, today, restarts, aborted,
                   completed>>
    /\ NoAnalysisMade
    /\ UNCHANGED mainVars
    /\ UNCHANGED pollVars

\* one iteration of the loop of _check_buy_signals (lines 429-480)
CheckBuyStep ==
    /\ pc = "buy"
    /\ todo # <<>>
    /\ LET score == Head(todo)
           ticker == score.ticker
           rest == Tail(todo)
       IN
       \E readOk \in BOOLEAN :
       IF ~readOk
       THEN \* get_position raises (line 433): logged at line 480, next ticker
            /\ todo' = AfterCaught(rest)
            /\ pc' = IF AfterCaught(rest) = <<>> THEN "sell_start" ELSE "buy"
            /\ NothingDone
            /\ Caught
            /\ UNCHANGED ai_score_history
       ELSE IF has_position(positions, ticker)
       THEN \* line 433: already holding, continue
            /\ todo' = rest
            /\ pc' = IF rest = <<>> THEN "sell_start" ELSE "buy"
            /\ NothingDone
            /\ NoneRaised
            /\ UNCHANGED ai_score_history
       ELSE IF get_position_count(positions) >= max_positions
       THEN \* line 438: the limit is reached, break
            /\ todo' = <<>>
            /\ pc' = "sell_start"
            /\ NothingDone
            /\ NoneRaised
            /\ UNCHANGED ai_score_history
       ELSE \E current_price \in Quotes \cup {None} :
            IF ~Truthy(current_price)
            THEN \* line 444: no quote, continue
                 /\ todo' = rest
                 /\ pc' = IF rest = <<>> THEN "sell_start" ELSE "buy"
                 /\ NothingDone
                 /\ NoneRaised
                 /\ UNCHANGED ai_score_history
            ELSE \* lines 450-477: signal, order, score history
                 /\ ExecuteBuySignal(
                      [Store EXCEPT !.notified = <<notify_signal(ticker, "BUY")>>],
                      [ticker |-> ticker, action |-> "BUY",
                       reason |-> "AI Score = 10 (Strong Buy)",
                       ai_score |-> score.ai_score,
                       current_price |-> current_price,
                       target_price |-> score.target_price])
                 /\ ai_score_history' =
                      IF raised' = "caught" THEN ai_score_history
                      ELSE save_ai_score(ai_score_history, today, ticker, score.ai_score)
                 /\ todo' = IF raised' = "caught" THEN AfterCaught(rest) ELSE rest
                 /\ pc' = IF todo' = <<>> THEN "sell_start" ELSE "buy"
    /\ UNCHANGED <<last_daily_check_date, max_positions, today, caller, restarts,
                   runs, aborted, completed, lastSync>>
    /\ NoDailyCall
    /\ NoAnalysisMade
    /\ UNCHANGED mainVars
    /\ UNCHANGED pollVars

\* _check_sell_signals reads the positions (line 484).  The read is outside
\* any try: a store error leaves run_daily_check through the exception.
CheckSellStart ==
    /\ pc = "sell_start"
    /\ \E readOk \in BOOLEAN :
         IF readOk
         THEN /\ todo' = positions
              /\ pc' = IF positions = <<>> THEN "idle" ELSE "sell"
              /\ completed' = IF positions = <<>> THEN completed \cup {today}
                              ELSE completed
              /\ notified' = <<>>
              /\ NoneRaised
              /\ UNCHANGED aborted
         ELSE /\ todo' = <<>>
              /\ pc' = AfterAbort
              /\ Escaped
              /\ aborted' = aborted \cup {today}
              /\ notified' =
                   IF caller = "startup" THEN <<>>
                   ELSE <<notify_error("Main loop error", "-", "-")>>
              /\ UNCHANGED completed
    /\ NoOrderSubmitted
    /\ UNCHANGED <<positions, trades, ai_score_history, last_daily_check_date,
                   max_positions, today, caller, restarts, runs, lastSync>>
    /\ NoDailyCall
    /\ NoAnalysisMade
    /\ UNCHANGED mainVars
    /\ UNCHANGED pollVars

\* line 502: the log line's format spec, ".2f if current_price else 0", is
\* rejected by format() for a float (ValueError) and for None (TypeError)
SellLogLineRaises(current_price) == TRUE

\* one iteration of the loop of _check_sell_signals (lines 491-536)
\* history: the score get_score returned to an iteration of the sell check
\* (strategy.py line 495)
SellChecked(ticker, score) ==
    [op |-> "check_sell", ticker |-> ticker, ai_score |-> score]

CheckSellStep ==
    /\ pc = "sell"
    /\ todo # <<>>
    /\ LET position == Head(todo)
           ticker == position.ticker
           rest == Tail(todo)
       IN
       /\ \E score \in Scores \cup {None}, current_price \in Quotes \cup {None} :
            /\ analysis' = SellChecked(ticker, score)
            /\ IF score = None
               THEN \* line 496: no score, continue
                    /\ NothingDone
                    /\ NoneRaised
                    /\ UNCHANGED ai_score_history
               ELSE IF SellLogLineRaises(current_price)
               THEN \* line 535: the exception is logged, the ticker is left
                    /\ NothingDone
                    /\ Caught
                    /\ UNCHANGED ai_score_history
               ELSE /\ IF score < SELL_SCORE_THRESHOLD
                       THEN ExecuteSellSignal(
                               [Store EXCEPT !.notified = <<notify_signal(ticker, "SELL")>>],
                               [ticker |-> ticker, action |-> "SELL",
                                reason |-> "AI Score dropped", ai_score |-> score,
                                current_price |-> current_price, target_price |-> None])
                       ELSE NothingDone /\ NoneRaised
                    /\ ai_score_history' =
                         IF raised' = "caught" THEN ai_score_history
                         ELSE save_ai_score(ai_score_history, today, ticker, score)
       /\ todo' = IF raised' = "caught" THEN AfterCaught(rest) ELSE rest
       /\ pc' = IF todo' = <<>> THEN "idle" ELSE "sell"
       /\ completed' = IF todo' = <<>> THEN completed \cup {today} ELSE completed
    /\ UNCHANGED <<last_daily_check_date, max_positions, today, caller, restarts,
                   runs, aborted, lastSync>>
    /\ NoDailyCall
    /\ UNCHANGED <<stop_loss_pct, take_profit_pct>>
    /\ UNCHANGED mainVars
    /\ UNCHANGED pollVars

\* ------------------------------------------------------------------------
\* strategy.py: the decision rules
\* ------------------------------------------------------------------------
BUY_SCORE_THRESHOLD == 10

\* a TradeSignal (lines 24-33)
TradeSignal(ticker, action, reason, ai_score, current_price, target_price) ==
    [ticker |-> ticker, action |-> action, reason |-> reason, ai_score |-> ai_score,
     current_price |-> current_price, target_price |-> target_price]

\* a variant of _check_buy_signal that looks at the score first
check_buy_signal_score_first(ticker, score, current_price, count, max) ==
    IF score.ai_score >= BUY_SCORE_THRESHOLD
    THEN TradeSignal(ticker, "BUY", "AI Score = 10 (Strong Buy)", score.ai_score,
                     current_price, score.target_price)
    ELSE IF count >= max
    THEN TradeSignal(ticker, "HOLD", "Max positions reached", score.ai_score,
                     current_price, None)
    ELSE TradeSignal(ticker, "HOLD", "AI Score below buy threshold", score.ai_score,
                     current_price, None)

\* _check_buy_signal (lines 162-196); count is what get_position_count gives
\* at line 170, max is self.max_positions
check_buy_signal(ticker, score, current_price, count, max) ==
    IF count >= max
    THEN TradeSignal(ticker, "HOLD", "Max positions reached", score.ai_score,
                     current_price, None)
    ELSE IF score.ai_score >= BUY_SCORE_THRESHOLD
    THEN TradeSignal(ticker, "BUY", "AI Score = 10 (Strong Buy)", score.ai_score,
                     current_price, score.target_price)
    ELSE TradeSignal(ticker, "HOLD", "AI Score below buy threshold", score.ai_score,
                     current_price, None)

\* a variant of _check_sell_signal that looks at the score first
check_sell_signal_score_first(ticker, score, position, current_price, sl, tp) ==
    IF score.ai_score < SELL_SCORE_THRESHOLD
    THEN TradeSignal(ticker, "SELL", "AI Score dropped", score.ai_score,
                     current_price, None)
    ELSE IF Truthy(current_price) /\ StopLossHitAt(current_price, position.avg_cost, sl)
    THEN TradeSignal(ticker, "SELL", "Stop loss triggered", score.ai_score,
                     current_price, None)
    ELSE IF Truthy(current_price) /\ TakeProfitHitAt(current_price, position.avg_cost, tp)
    THEN TradeSignal(ticker, "SELL", "Take profit triggered", score.ai_score,
                     current_price, None)
    ELSE TradeSignal(ticker, "HOLD", "No sell signal", score.ai_score,
                     current_price, None)

\* a variant of _check_sell_signal that gives no signal without a price
check_sell_signal_needs_price(ticker, score, position, current_price, sl, tp) ==
    IF ~Truthy(current_price)
    THEN TradeSignal(ticker, "HOLD", "No sell signal", score.ai_score,
                     current_price, None)
    ELSE IF StopLossHitAt(current_price, position.avg_cost, sl)
    THEN TradeSignal(ticker, "SELL", "Stop loss triggered", score.ai_score,
                     current_price, None)
    ELSE IF TakeProfitHitAt(current_price, position.avg_cost, tp)
    THEN TradeSignal(ticker, "SELL", "Take profit triggered", score.ai_score,
                     current_price, None)
    ELSE IF score.ai_score < SELL_SCORE_THRESHOLD
    THEN TradeSignal(ticker, "SELL", "AI Score dropped", score.ai_score,
                     current_price, None)
    ELSE TradeSignal(ticker, "HOLD", "No sell signal", score.ai_score,
                     current_price, None)

\* _check_sell_signal (lines 198-244); sl and tp are self.stop_loss_pct and
\* self.take_profit_pct
check_sell_signal(ticker, score, position, current_price, sl, tp) ==
    IF Truthy(current_price) /\ StopLossHitAt(current_price, position.avg_cost, sl)
    THEN TradeSignal(ticker, "SELL", "Stop loss triggered", score.ai_score,
                     current_price, None)
    ELSE IF Truthy(current_price) /\ TakeProfitHitAt(current_price, position.avg_cost, tp)
    THEN TradeSignal(ticker, "SELL", "Take profit triggered", score.ai_score,
                     current_price, None)
    ELSE IF score.ai_score < SELL_SCORE_THRESHOLD
    THEN TradeSignal(ticker, "SELL", "AI Score dropped", score.ai_score,
                     current_price, None)
    ELSE TradeSignal(ticker, "HOLD", "No sell signal", score.ai_score,
                     current_price, None)

\* a variant of the sweep that looks at the take profit first
price_check_signals_profit_first(ticker, position, current_price, sl, tp) ==
    IF ~Truthy(current_price) THEN <<>>
    ELSE IF TakeProfitHitAt(current_price, position.avg_cost, tp)
    THEN <<TradeSignal(ticker, "SELL", "Take profit triggered", None,
                       current_price, None)>>
    ELSE IF StopLossHitAt(current_price, position.avg_cost, sl)
    THEN <<TradeSignal(ticker, "SELL", "Stop loss triggered", None,
                       current_price, None)>>
    ELSE <<>>

\* run_price_check, lines 550-574: the signals it hands to execute_signal for
\* one position and one quote; position is the row as read at line 542
price_check_signals(ticker, position, current_price, sl, tp) ==
    IF ~Truthy(current_price) THEN <<>>
    ELSE IF StopLossHitAt(current_price, position.avg_cost, sl)
    THEN <<TradeSignal(ticker, "SELL", "Stop loss triggered", None,
                       current_price, None)>>
    ELSE IF TakeProfitHitAt(current_price, position.avg_cost, tp)
    THEN <<TradeSignal(ticker, "SELL", "Take profit triggered", None,
                       current_price, None)>>
    ELSE <<>>

\* ------------------------------------------------------------------------
\* strategy.py: run_price_check
\* ------------------------------------------------------------------------
\* a variant of the main loop whose jobs start while another job runs
MainLoopWaitingAlways(p) == TRUE

\* main.py lines 147-150: schedule.run_pending() calls the due jobs one after
\* another in the thread of the main loop; a job starts when the loop waits
MainLoopWaiting(p) == p = "idle"

\* lines 542-545: the positions are read, outside any try
RunPriceCheck ==
    /\ MainLoopWaiting(pc)
    /\ caller' = "schedule"
    /\ \E readOk \in BOOLEAN :
         IF readOk
         THEN /\ todo' = positions
              /\ pc' = IF positions = <<>> THEN "idle" ELSE "price"
              /\ notified' = <<>>
              /\ NoneRaised
         ELSE /\ todo' = <<>>
              /\ pc' = "idle"
              /\ Escaped
              /\ notified' = <<notify_error("Main loop error", "-", "-")>>
    /\ NoOrderSubmitted
    /\ UNCHANGED <<positions, trades, ai_score_history, last_daily_check_date,
                   max_positions, today, restarts, runs, aborted, completed,
                   lastSync>>
    /\ NoDailyCall
    /\ NoAnalysisMade
    /\ UNCHANGED mainVars
    /\ UNCHANGED pollVars

\* one iteration of the loop of run_price_check (lines 547-577): position is
\* the row as read at line 542
PriceCheckStep ==
    /\ pc = "price"
    /\ todo # <<>>
    /\ LET position == Head(todo)
           ticker == position.ticker
           rest == Tail(todo)
       IN
       /\ \E current_price \in Quotes \cup {None} :
            LET signals == price_check_signals(ticker, position, current_price,
                                               stop_loss_pct, take_profit_pct)
            IN
            IF signals = <<>>
            THEN NothingDone /\ NoneRaised
            ELSE ExecuteSellSignal(Store, signals[1])
       /\ todo' = IF raised' = "caught" THEN AfterCaught(rest) ELSE rest
       /\ pc' = IF todo' = <<>> THEN "idle" ELSE "price"
    /\ UNCHANGED <<ai_score_history, last_daily_check_date, max_positions, today,
                   caller, restarts, runs, aborted, completed, lastSync>>
    /\ NoDailyCall
    /\ NoAnalysisMade
    /\ UNCHANGED mainVars
    /\ UNCHANGED pollVars

\* ------------------------------------------------------------------------
\* The process and its environment
\* ------------------------------------------------------------------------
\* midnight passes while the main loop sleeps
NextDay ==
    /\ pc = "idle"
    /\ Events < MaxEvents
    /\ today' = today + 1
    /\ runs' = 0
    /\ NothingDone
    /\ NoneRaised
    /\ UNCHANGED <<ai_score_history, last_daily_check_date, max_positions, pc,
                   caller, todo, restarts, aborted, completed, lastSync>>
    /\ NoDailyCall
    /\ NoAnalysisMade
    /\ UNCHANGED mainVars
    /\ UNCHANGED pollVars

\* the process ends and is started again: the database stays, the module
\* singleton is built anew (strategy.py lines 40-47 and 607), main() runs
Restart ==
    /\ pc \in {"idle", "exited"}
    /\ Events < MaxEvents
    /\ restarts' = restarts + 1
    /\ pc' = AfterStartup
    /\ caller' = "startup"
    /\ todo' = <<>>
    /\ last_daily_check_date' = NoDate
    /\ runs' = 0
    /\ aborted' = {}
    /\ lastSync' = NoSync
    /\ NothingDone
    /\ NoneRaised
    /\ UNCHANGED <<ai_score_history, max_positions, today, completed>>
    /\ NoDailyCall
    /\ NoAnalysisMade
    /\ UNCHANGED mainVars
    /\ UNCHANGED pollVars

\* _get_order_status returned None, or was not called yet
NoStatusInfo == [status |-> "None", filled_qty |-> 0, avg_price |-> 0]

\* _wait_for_order_fill has not returned
NoFillInfo ==
    [filled_qty |-> 0, avg_price |-> 0, partial_fill |-> FALSE, status |-> "-"]


\* the settings validate_config asks for
RequiredSettings == {"DANELFIN_API_KEY", "TELEGRAM_BOT_TOKEN", "TELEGRAM_CHAT_ID"}

\* main.py lines 101-136 are done: the settings are there and a connection
\* attempt succeeded
MainDone ==
    /\ env = RequiredSettings
    /\ attempt = 1
    /\ connected = TRUE
    /\ fatal = "-"

\* strategy.py lines 43-44: the thresholds as __init__ copies them from the
\* configuration
SigOff ==
    /\ stop_loss_pct = STOP_LOSS_PCT
    /\ take_profit_pct = TAKE_PROFIT_PCT
    /\ analysis = NoAnalysis

PollOff ==
    /\ pollPc = "off"
    /\ timeout = 0
    /\ requested_qty = 0
    /\ elapsed = 0
    /\ status_info = NoStatusInfo
    /\ fill_info = NoFillInfo
    /\ pollLog = <<>>

OrchStart ==
    /\ positions = <<>>
    /\ trades = <<>>
    /\ ai_score_history = {}
    /\ last_daily_check_date = NoDate
    /\ today = 1
    /\ pc = AfterStartup
    /\ caller = "startup"
    /\ todo = <<>>
    /\ restarts = 0
    /\ notified = <<>>
    /\ nOrders = 0
    /\ lastOrder = NoOrder
    /\ unknownPending = {}
    /\ lastCall = "-"
    /\ runs = 0
    /\ aborted = {}
    /\ completed = {}
    /\ lastSync = NoSync
    /\ raised = "-"
    /\ MainDone
    /\ SigOff

Init ==
    /\ OrchStart
    /\ max_positions \in MaxPositionsCfgs
    /\ PollOff

OrchNext ==
    \/ SyncPositionsWithBroker
    \/ SyncPositionsWithBrokerRaises
    \/ RunDailyCheckSkip
    \/ RunDailyCheckRun
    \/ CheckBuyStep
    \/ CheckSellStart
    \/ CheckSellStep
    \/ RunPriceCheck
    \/ PriceCheckStep
    \/ NextDay
    \/ Restart

Next == OrchNext

Spec == Init /\ [][Next]_vars

\* ------------------------------------------------------------------------
\* futu_trader.py: _wait_for_order_fill, statement by statement
\* ------------------------------------------------------------------------
\* the share counts an order may ask for
RequestedQtys == {1, default_quantity}
\* the seconds a status query may take
QueryDurations == {0, 1}

\* what _get_order_status may return: a row of the broker, or None
QueryResults(q) == BrokerStatusInfos(q) \cup {NoStatusInfo}

QueryEntry(si) == [op |-> "query", info |-> si]
SleepEntry == [op |-> "sleep", info |-> NoStatusInfo]
\* the query of line 210, made after the loop
TimeoutQueryEntry(si) == [op |-> "timeout_query", info |-> si]

\* a variant in which a failed query ends the tracking
AfterFailedQueryReturns == "returned"

\* lines 181-184: a query that returned nothing is followed by the sleep and
\* "continue"
AfterFailedQuery == "sleep"

\* lines 180-206, up to the sleep: the loop test passes, the status is queried;
\* a final status returns at once
PollQueryInLoop ==
    /\ pollPc = "loop"
    /\ elapsed < timeout
    /\ \E si \in QueryResults(requested_qty), d \in QueryDurations :
         /\ status_info' = si
         /\ elapsed' = elapsed + d
         /\ pollLog' = Append(pollLog, QueryEntry(si))
         /\ IF si = NoStatusInfo
            THEN /\ pollPc' = AfterFailedQuery
                 /\ UNCHANGED fill_info
            ELSE IF IsFinalStatus(si.status)
            THEN /\ pollPc' = "returned"
                 /\ fill_info' = FillInfoFinal(si, requested_qty)
            ELSE /\ pollPc' = "sleep"
                 /\ UNCHANGED fill_info
    /\ UNCHANGED <<timeout, requested_qty>>
    /\ UNCHANGED <<orchVars, sigVars, mainVars>>

\* a variant of the sleep that takes no time
AfterSleepNoTime(t) == t

\* lines 183 and 206: the clock after time.sleep(ORDER_POLL_INTERVAL)
AfterSleep(t) == t + ORDER_POLL_INTERVAL

\* lines 183 and 206: time.sleep(ORDER_POLL_INTERVAL), then the loop test again
PollSleep ==
    /\ pollPc = "sleep"
    /\ elapsed' = AfterSleep(elapsed)
    /\ pollLog' = Append(pollLog, SleepEntry)
    /\ pollPc' = "loop"
    /\ UNCHANGED <<timeout, requested_qty, status_info, fill_info>>
    /\ UNCHANGED <<orchVars, sigVars, mainVars>>

\* lines 208-224: the loop test fails, the status is queried a last time
PollTimeoutQuery ==
    /\ pollPc = "loop"
    /\ elapsed >= timeout
    /\ \E si \in QueryResults(requested_qty) :
         /\ status_info' = si
         /\ pollLog' = Append(pollLog, TimeoutQueryEntry(si))
         /\ fill_info' = IF si = NoStatusInfo THEN FillInfoUnknown
                         ELSE FillInfoTimeout(si, requested_qty)
    /\ pollPc' = "returned"
    /\ UNCHANGED <<timeout, requested_qty, elapsed>>
    /\ UNCHANGED <<orchVars, sigVars, mainVars>>

\* _wait_for_order_fill is entered (line 170)
InitPoll ==
    /\ OrchStart
    /\ max_positions = 1
    /\ pollPc = "loop"
    /\ timeout \in 1..MaxTimeout
    /\ requested_qty \in RequestedQtys
    /\ elapsed = 0
    /\ status_info = NoStatusInfo
    /\ fill_info = NoFillInfo
    /\ pollLog = <<>>

NextPoll ==
    \/ PollQueryInLoop
    \/ PollSleep
    \/ PollTimeoutQuery

SpecPoll == InitPoll /\ [][NextPoll]_vars

\* the tracker is sequential code: a query that was issued returns, a sleep
\* ends, and the statement after it runs
SpecPollFair == SpecPoll /\ WF_vars(NextPoll)

\* ------------------------------------------------------------------------
\* The price check with place_order statement by statement: the order is
\* submitted, _wait_for_order_fill polls, _execute_sell books what it returned
\* ------------------------------------------------------------------------
\* the rows a sync has inserted for the broker's holdings
HeldRows ==
    { <<NewRow("BAC", 50, 103, 1, None, None, None)>>,
      <<NewRow("BAC", 50, 103, 1, None, None, None),
        NewRow("FHN", 50, 103, 1, None, None, None)>>,
      <<NewRow("FHN", 50, 103, 1, None, None, None),
        NewRow("BAC", 50, 103, 1, None, None, None)>> }

\* a variant of the call of line 277 that does not wait for the tracker
PlaceOrderReturnedEarly(p) == TRUE

\* futu_trader.py line 277: place_order goes on when the call of
\* _wait_for_order_fill has returned
PlaceOrderReturned(p) == p = "returned"

\* the SELL signal of run_price_check for a quote, if it gives one
PriceSignals(ticker, current_price, avg_cost) ==
    IF ~Truthy(current_price) THEN {}
    ELSE IF StopLossHit(current_price, avg_cost)
    THEN { [ticker |-> ticker, action |-> "SELL", reason |-> "Stop loss triggered",
            ai_score |-> None, current_price |-> current_price,
            target_price |-> None] }
    ELSE IF TakeProfitHit(current_price, avg_cost)
    THEN { [ticker |-> ticker, action |-> "SELL", reason |-> "Take profit triggered",
            ai_score |-> None, current_price |-> current_price,
            target_price |-> None] }
    ELSE {}

\* the tracker is entered for an order of q shares (lines 277 and 170)
PollEntered(q) ==
    /\ pollPc' = "loop"
    /\ timeout' = MaxTimeout
    /\ requested_qty' = q
    /\ elapsed' = 0
    /\ status_info' = NoStatusInfo
    /\ fill_info' = NoFillInfo
    /\ pollLog' = <<>>

\* the tracker is left
PollLeft ==
    /\ pollPc' = "off"
    /\ timeout' = 0
    /\ requested_qty' = 0
    /\ elapsed' = 0
    /\ status_info' = NoStatusInfo
    /\ fill_info' = NoFillInfo
    /\ pollLog' = <<>>

\* one iteration of the loop of run_price_check up to the submission of the
\* order (strategy.py 547-575 and 324-336, futu_trader.py 262-277)
PriceCheckSubmit ==
    /\ pc = "price"
    /\ todo # <<>>
    /\ pollPc = "off"
    /\ UNCHANGED mainVars
    /\ LET position == Head(todo)
           ticker == position.ticker
           rest == Tail(todo)
       IN
       \E current_price \in Quotes \cup {None}, accepted \in BOOLEAN :
         LET signals == PriceSignals(ticker, current_price, position.avg_cost) IN
         IF signals = {} \/ ~has_position(positions, ticker)
         THEN \* no quote, no threshold hit, or no position to sell
              /\ NothingDone
              /\ todo' = rest
              /\ pc' = IF rest = <<>> THEN "idle" ELSE "price"
              /\ UNCHANGED <<pollVars, sigVars>>
         ELSE LET signal == CHOOSE sig \in signals : TRUE
                  stored == get_position(positions, ticker)
              IN
              /\ Events < MaxEvents
              /\ IF accepted
                 THEN \* the broker took the order: the tracker starts
                      /\ nOrders' = nOrders + 1
                      /\ lastOrder' = [ticker |-> ticker, side |-> "SELL",
                                       quantity |-> stored.quantity,
                                       result |-> OrderResultRejected,
                                       status |-> "IN_FLIGHT", signal |-> signal]
                      /\ PollEntered(stored.quantity)
                      /\ UNCHANGED sigVars
                      /\ pc' = "waiting"
                      /\ notified' = <<>>
                      /\ UNCHANGED <<positions, trades, todo, unknownPending>>
                 ELSE \* the broker refused it: booked as failed at once
                      LET out == execute_sell(Store, signal, stored,
                                              OrderResultRejected) IN
                      /\ positions' = out.positions
                      /\ trades' = out.trades
                      /\ notified' = out.notified
                      /\ OrderSubmitted(OrderEntry(ticker, "SELL", stored.quantity,
                                          [result |-> OrderResultRejected,
                                           status |-> "REJECTED"]))
                      /\ todo' = rest
                      /\ pc' = IF rest = <<>> THEN "idle" ELSE "price"
                      /\ UNCHANGED <<pollVars, sigVars>>
    /\ NoneRaised
    /\ UNCHANGED <<ai_score_history, last_daily_check_date, max_positions, today,
                   caller, restarts, runs, aborted, completed, lastSync>>
    /\ NoDailyCall

\* the tracker has returned: place_order builds the OrderResult (lines
\* 279-303), _execute_sell books it (strategy.py 338-381), the loop of
\* run_price_check goes to the next position
PriceCheckBook ==
    /\ pc = "waiting"
    /\ PlaceOrderReturned(pollPc)
    /\ UNCHANGED mainVars
    /\ LET ticker == lastOrder.ticker
           stored == get_position(positions, ticker)
           result == OrderResultOf(nOrders, requested_qty, fill_info)
           out == execute_sell(Store, lastOrder.signal, stored, result)
           rest == Tail(todo)
       IN
       /\ positions' = out.positions
       /\ trades' = out.trades
       /\ notified' = out.notified
       /\ lastOrder' = OrderEntry(ticker, "SELL", lastOrder.quantity,
                                  [result |-> result, status |-> fill_info.status])
       /\ unknownPending' =
            IF fill_info.status = "UNKNOWN" THEN unknownPending \cup {ticker}
            ELSE unknownPending
       /\ todo' = rest
       /\ pc' = IF rest = <<>> THEN "idle" ELSE "price"
    /\ PollLeft
    /\ UNCHANGED sigVars
    /\ NoneRaised
    /\ UNCHANGED <<ai_score_history, last_daily_check_date, max_positions, today,
                   caller, restarts, nOrders, runs, aborted, completed, lastSync>>
    /\ NoDailyCall

\* the main loop after the initial check, the store as a sync left it
InitOrder ==
    /\ positions \in HeldRows
    /\ trades = <<>>
    /\ ai_score_history = {}
    /\ last_daily_check_date = 1
    /\ max_positions = 2
    /\ today = 1
    /\ pc = "idle"
    /\ caller = "schedule"
    /\ todo = <<>>
    /\ restarts = 0
    /\ notified = <<>>
    /\ nOrders = 0
    /\ lastOrder = NoOrder
    /\ unknownPending = {}
    /\ lastCall = "-"
    /\ runs = 1
    /\ aborted = {}
    /\ completed = {1}
    /\ lastSync = NoSync
    /\ raised = "-"
    /\ MainDone
    /\ PollOff
    /\ SigOff

NextOrder ==
    \/ RunPriceCheck
    \/ PriceCheckSubmit
    \/ PollQueryInLoop
    \/ PollSleep
    \/ PollTimeoutQuery
    \/ PriceCheckBook

SpecOrder == InitOrder /\ [][NextOrder]_vars

\* ------------------------------------------------------------------------
\* The decision rules applied: analyze_ticker and the price check, over
\* stores, quotes, scores and thresholds
\* ------------------------------------------------------------------------
\* stop_loss_pct and take_profit_pct: the configured 8 and 15; a stop loss
\* of -20 that overlaps the take profit; both at -20, where every quote from
\* 0.8 to 1.2 times the cost is under the stop loss and over the take profit
ThresholdCfgs ==
    { <<STOP_LOSS_PCT, TAKE_PROFIT_PCT>>,
      <<0 - 20, TAKE_PROFIT_PCT>>,
      <<0 - 20, 0 - 20>> }

\* what a call of analyze_ticker leaves in the history
Analysed(ticker, ai_score, current_price, position, count, signal) ==
    [op |-> "analyze_ticker", ticker |-> ticker, ai_score |-> ai_score,
     current_price |-> current_price, position |-> position, count |-> count,
     signal |-> signal]

\* no row: get_position returned None, or was not called
NoRow == [ticker |-> "-", avg_cost |-> 0]

\* analyze_ticker (lines 124-160)
AnalyzeTicker ==
    /\ pc = "idle"
    /\ \E ticker \in Tickers, ai_score \in Scores \cup {None},
          current_price \in Quotes \cup {None} :
         IF ai_score = None
         THEN \* lines 136-138: no score
              /\ analysis' = Analysed(ticker, None, None, NoRow, 0,
                               TradeSignal(ticker, "HOLD", "No AI score available",
                                           None, None, None))
              /\ UNCHANGED ai_score_history
         ELSE LET score == [ticker |-> ticker, ai_score |-> ai_score,
                            target_price |-> None]
                  count == get_position_count(positions)
              IN
              \* line 141
              /\ ai_score_history' =
                   save_ai_score(ai_score_history, today, ticker, ai_score)
              /\ IF has_position(positions, ticker)
                 THEN LET position == get_position(positions, ticker) IN
                      analysis' =
                        Analysed(ticker, ai_score, current_price,
                                 [ticker |-> ticker, avg_cost |-> position.avg_cost],
                                 count,
                                 check_sell_signal(ticker, score, position,
                                                   current_price, stop_loss_pct,
                                                   take_profit_pct))
                 ELSE analysis' =
                        Analysed(ticker, ai_score, current_price, NoRow, count,
                                 check_buy_signal(ticker, score, current_price,
                                                  count, max_positions))
    /\ NothingDone
    /\ NoneRaised
    /\ NoDailyCall
    /\ UNCHANGED <<last_daily_check_date, max_positions, today, pc, caller, todo,
                   restarts, runs, aborted, completed, lastSync>>
    /\ UNCHANGED <<pollVars, stop_loss_pct, take_profit_pct>>
    /\ UNCHANGED mainVars

\* the main loop of a process that was started again MaxEvents - 1 times and
\* has made its initial check; the store as a sync left it
InitSignal ==
    /\ positions \in HeldRows \cup {<<>>}
    /\ trades = <<>>
    /\ ai_score_history = {}
    /\ last_daily_check_date = 1
    /\ max_positions \in MaxPositionsCfgs
    /\ today = 1
    /\ pc = "idle"
    /\ caller = "schedule"
    /\ todo = <<>>
    /\ restarts = MaxEvents - 1
    /\ notified = <<>>
    /\ nOrders = 0
    /\ lastOrder = NoOrder
    /\ unknownPending = {}
    /\ lastCall = "-"
    /\ runs = 1
    /\ aborted = {}
    /\ completed = {1}
    /\ lastSync = NoSync
    /\ raised = "-"
    /\ MainDone
    /\ PollOff
    /\ \E cfg \in ThresholdCfgs :
         /\ stop_loss_pct = cfg[1]
         /\ take_profit_pct = cfg[2]
    /\ analysis = NoAnalysis

NextSignal ==
    \/ AnalyzeTicker
    \/ RunPriceCheck
    \/ PriceCheckStep

SpecSignal == InitSignal /\ [][NextSignal]_vars

\* ------------------------------------------------------------------------
\* main.py: main() from its first line to the main loop
\* ------------------------------------------------------------------------
max_retries == 10

\* validate_config (lines 71-86): every required setting is non-empty
validate_config(e) == RequiredSettings \subseteq e

\* a variant of main() that goes on when connect_with_retry returned False
AfterConnectFailureGoesOn == "setup"

\* main.py lines 121-124: connect_with_retry returned False, main() notifies
\* and calls sys.exit(1)
AfterConnectFailure == "exited"

\* main.py lines 112-114: the validation failed; logger.error and sys.exit(1),
\* the notifier is not called
ConfigFailureNotified == <<>>

\* the attributes class Config defines (config.py lines 9-42)
ConfigAttributes ==
    {"DANELFIN_API_KEY", "DANELFIN_API_URL", "TELEGRAM_BOT_TOKEN",
     "TELEGRAM_CHAT_ID", "FUTU_HOST", "FUTU_PORT", "IS_SIMULATION",
     "MAX_POSITIONS", "WATCHLIST", "BUY_SCORE_THRESHOLD", "SELL_SCORE_THRESHOLD",
     "TAKE_PROFIT_PCT", "STOP_LOSS_PCT", "DB_PATH", "DAILY_CHECK_TIME",
     "PRICE_CHECK_INTERVAL_MINUTES"}

\* the attributes of config that setup_schedule reads, in the order it reads
\* them (main.py lines 50, 53, 56)
ScheduleReads ==
    <<"DAILY_CHECK_TIME", "DAILY_SUMMARY_TIME", "PRICE_CHECK_INTERVAL_MINUTES">>

\* line 53 reads config.DAILY_SUMMARY_TIME, which config.py does not define:
\* AttributeError, outside any try
SetupScheduleRaises ==
    \E i \in 1..Len(ScheduleReads) : ScheduleReads[i] \notin ConfigAttributes

\* what a step of main() before the sync leaves alone
StartupFrame ==
    /\ UNCHANGED <<positions, trades, ai_score_history, last_daily_check_date,
                   max_positions, today, caller, todo, restarts, runs, aborted,
                   completed, lastSync>>
    /\ NoOrderSubmitted
    /\ NoDailyCall
    /\ NoAnalysisMade
    /\ UNCHANGED pollVars

\* lines 110-114
ValidateConfig ==
    /\ pc = "validate"
    /\ IF validate_config(env)
       THEN /\ pc' = "init_db"
            /\ notified' = <<>>
            /\ fatal' = "-"
       ELSE /\ pc' = "exited"
            /\ notified' = ConfigFailureNotified
            /\ fatal' = "config"
    /\ NoneRaised
    /\ UNCHANGED <<env, attempt, connected>>
    /\ StartupFrame

\* lines 116-118: init_database, outside any try
InitDatabase ==
    /\ pc = "init_db"
    /\ \E ok \in BOOLEAN :
         IF ok
         THEN pc' = "connect" /\ fatal' = "-" /\ NoneRaised
         ELSE pc' = "exited" /\ fatal' = "traceback" /\ Escaped
    /\ notified' = <<>>
    /\ UNCHANGED <<env, attempt, connected>>
    /\ StartupFrame

\* one iteration of the loop of connect_with_retry (lines 91-97); after the
\* last one the function returns False and main() handles it (lines 121-124)
ConnectAttempt ==
    /\ pc = "connect"
    /\ attempt < max_retries
    /\ attempt' = attempt + 1
    /\ \E ok \in BOOLEAN :
         /\ connected' = ok
         /\ IF ok
            THEN /\ pc' = "setup"
                 /\ notified' = <<>>
                 /\ fatal' = "-"
            ELSE IF attempt' < max_retries
            THEN \* lines 95-97: sleep, next attempt
                 /\ pc' = "connect"
                 /\ notified' = <<>>
                 /\ fatal' = "-"
            ELSE /\ pc' = AfterConnectFailure
                 /\ notified' =
                      <<notify_error("Failed to connect to FutuOpenD", "-", "-")>>
                 /\ fatal' = IF AfterConnectFailure = "exited" THEN "broker" ELSE "-"
    /\ NoneRaised
    /\ UNCHANGED env
    /\ StartupFrame

\* lines 126-130: the signal handlers are set, setup_schedule is called
SetupSchedule ==
    /\ pc = "setup"
    /\ IF SetupScheduleRaises
       THEN pc' = "exited" /\ fatal' = "traceback" /\ Escaped
       ELSE pc' = AfterStartup /\ fatal' = "-" /\ NoneRaised
    /\ notified' = <<>>
    /\ UNCHANGED <<env, attempt, connected>>
    /\ StartupFrame

\* the process has ended and is started again, in whatever environment
StartProcess ==
    /\ pc = "exited"
    /\ Events < MaxEvents
    /\ restarts' = restarts + 1
    /\ pc' = "validate"
    /\ env' \in SUBSET RequiredSettings
    /\ attempt' = 0
    /\ connected' = FALSE
    /\ fatal' = "-"
    /\ notified' = <<>>
    /\ NoneRaised
    /\ UNCHANGED <<positions, trades, ai_score_history, last_daily_check_date,
                   max_positions, today, caller, todo, runs, aborted, completed,
                   lastSync>>
    /\ NoOrderSubmitted
    /\ NoDailyCall
    /\ NoAnalysisMade
    /\ UNCHANGED pollVars

\* main() is entered
InitMain ==
    /\ positions = <<>>
    /\ trades = <<>>
    /\ ai_score_history = {}
    /\ last_daily_check_date = NoDate
    /\ max_positions \in MaxPositionsCfgs
    /\ today = 1
    /\ pc = "validate"
    /\ caller = "startup"
    /\ todo = <<>>
    /\ restarts = 0
    /\ notified = <<>>
    /\ nOrders = 0
    /\ lastOrder = NoOrder
    /\ unknownPending = {}
    /\ lastCall = "-"
    /\ runs = 0
    /\ aborted = {}
    /\ completed = {}
    /\ lastSync = NoSync
    /\ raised = "-"
    /\ PollOff
    /\ SigOff
    /\ env \in SUBSET RequiredSettings
    /\ attempt = 0
    /\ connected = FALSE
    /\ fatal = "-"

NextMain ==
    \/ ValidateConfig
    \/ InitDatabase
    \/ ConnectAttempt
    \/ SetupSchedule
    \/ StartProcess

SpecMain == InitMain /\ [][NextMain]_vars

\* ------------------------------------------------------------------------
\* danelfin.py: get_score
\* ------------------------------------------------------------------------
MAX_LOOKBACK_DAYS == 5

\* the dates of the feed, as day numbers; "YYYY-MM-DD" strings sort alike
FeedDates == 1..(MAX_LOOKBACK_DAYS + 2)

\* what _fetch_ticker_history returns: the aiscore of each date it has; the
\* empty history stands for None and for {} (lines 54-56, 67)
FeedHistories == UNION { [D -> Scores] : D \in SUBSET FeedDates }

MaxOf(S) == CHOOSE x \in S : \A y \in S : y <= x

RECURSIVE SortedDesc(_)
\* sorted(history.keys(), reverse=True)
SortedDesc(S) ==
    IF S = {} THEN <<>>
    ELSE <<MaxOf(S)>> \o SortedDesc(S \ {MaxOf(S)})

\* seq[:n]
Take(seq, n) == SubSeq(seq, 1, IF n < Len(seq) THEN n ELSE Len(seq))

\* get_score returned None
NoScore == [date |-> None, ai_score |-> None]

\* get_score (lines 82-119): date is None for "the most recent"
get_score(history, date) ==
    IF DOMAIN history = {}
    THEN NoScore
    ELSE IF date # None /\ date \in DOMAIN history
    THEN [date |-> date, ai_score |-> history[date]]
    ELSE LET candidates == Take(SortedDesc(DOMAIN history), MAX_LOOKBACK_DAYS + 1) IN
         \* the body of the loop returns in its first iteration
         IF candidates = <<>> THEN NoScore
         ELSE [date |-> candidates[1], ai_score |-> history[candidates[1]]]

\* a call of get_score with the history the feed has and the date asked for
GetScore ==
    /\ analysis.op = "feed"
    /\ analysis' = [op |-> "get_score", history |-> analysis.history,
                    date |-> analysis.date,
                    result |-> get_score(analysis.history, analysis.date)]
    /\ UNCHANGED <<stop_loss_pct, take_profit_pct>>
    /\ UNCHANGED <<orchVars, pollVars, mainVars>>

InitScore ==
    /\ positions = <<>>
    /\ trades = <<>>
    /\ ai_score_history = {}
    /\ last_daily_check_date = NoDate
    /\ max_positions = 1
    /\ today = 1
    /\ pc = AfterStartup
    /\ caller = "startup"
    /\ todo = <<>>
    /\ restarts = 0
    /\ notified = <<>>
    /\ nOrders = 0
    /\ lastOrder = NoOrder
    /\ unknownPending = {}
    /\ lastCall = "-"
    /\ runs = 0
    /\ aborted = {}
    /\ completed = {}
    /\ lastSync = NoSync
    /\ raised = "-"
    /\ MainDone
    /\ PollOff
    /\ stop_loss_pct = STOP_LOSS_PCT
    /\ take_profit_pct = TAKE_PROFIT_PCT
    /\ \E history \in FeedHistories, date \in FeedDates \cup {None} :
         analysis = [op |-> "feed", history |-> history, date |-> date]

NextScore == GetScore

SpecScore == InitScore /\ [][NextScore]_vars

\* ------------------------------------------------------------------------
\* database.py: add_position on its own, on the stores and arguments below
\* ------------------------------------------------------------------------
\* costs in cents: two whole-dollar amounts and one that is not
AddCosts == {100, 200, 103}
AddQuantities == {50, default_quantity}

\* a row as an earlier call left it
StoredRow(ticker, quantity, avg_cost) ==
    NewRow(ticker, quantity, avg_cost, 1, 10, TargetPriceOf(avg_cost),
           StopLossOf(avg_cost))

\* the stores add_position is called on: empty, BAC alone, FHN before BAC
PositionStores ==
    {<<>>}
    \cup { <<StoredRow("BAC", q, c)>> : q \in AddQuantities, c \in AddCosts }
    \cup { <<StoredRow("FHN", 50, 103), StoredRow("BAC", q, c)>> :
             q \in AddQuantities, c \in AddCosts }

\* add_position(ticker, quantity, avg_cost, ai_score, target_price, stop_loss)
\* is called on the day after the stored rows were written (lines 110-131)
AddPosition ==
    /\ analysis.op = "add_input"
    /\ positions' = add_position(positions, analysis.ticker, analysis.quantity,
                                 analysis.avg_cost, today + 1, analysis.ai_score,
                                 analysis.target_price, analysis.stop_loss)
    /\ analysis' = [analysis EXCEPT !.op = "add_position", !.before = positions]
    /\ UNCHANGED <<stop_loss_pct, take_profit_pct>>
    /\ UNCHANGED <<trades, ai_score_history, last_daily_check_date,
                   max_positions, today, pc, caller, todo, restarts, notified,
                   nOrders, lastOrder, unknownPending, lastCall, runs, aborted,
                   completed, lastSync, raised>>
    /\ UNCHANGED <<pollVars, mainVars>>

InitPosition ==
    /\ positions \in PositionStores
    /\ trades = <<>>
    /\ ai_score_history = {}
    /\ last_daily_check_date = NoDate
    /\ max_positions = 2
    /\ today = 1
    /\ pc = AfterStartup
    /\ caller = "startup"
    /\ todo = <<>>
    /\ restarts = 0
    /\ notified = <<>>
    /\ nOrders = 0
    /\ lastOrder = NoOrder
    /\ unknownPending = {}
    /\ lastCall = "-"
    /\ runs = 0
    /\ aborted = {}
    /\ completed = {}
    /\ lastSync = NoSync
    /\ raised = "-"
    /\ MainDone
    /\ PollOff
    /\ stop_loss_pct = STOP_LOSS_PCT
    /\ take_profit_pct = TAKE_PROFIT_PCT
    /\ \E ticker \in Tickers, quantity \in AddQuantities, avg_cost \in AddCosts :
         analysis = [op |-> "add_input", before |-> <<>>, ticker |-> ticker,
                     quantity |-> quantity, avg_cost |-> avg_cost, ai_score |-> 9,
                     target_price |-> TargetPriceOf(avg_cost),
                     stop_loss |-> StopLossOf(avg_cost)]

NextPosition == AddPosition

SpecPosition == InitPosition /\ [][NextPosition]_vars

\* ------------------------------------------------------------------------
\* The properties
\* ------------------------------------------------------------------------
\* C1: once an order for a ticker has ended UNKNOWN, no step submits a further
\* order for that ticker until a position sync has run.
C1_NoOrderAfterUnknownUntilSync ==
    [][ nOrders' = nOrders + 1 => lastOrder'.ticker \notin unknownPending ]_vars

\* C2: a step whose order ends UNKNOWN leaves the positions and the trades as
\* they were, and what it tells the operator is not the "order failed" error
\* that a failed or unfilled order gets.
C2_UnknownHandledDistinctly ==
    [][ (nOrders' = nOrders + 1 /\ lastOrder'.status = "UNKNOWN") =>
          /\ positions' = positions
          /\ trades' = trades
          /\ \A i \in 1..Len(notified') :
               ~(/\ notified'[i].kind = "error"
                 /\ notified'[i].text \in {"Buy order failed", "Sell order failed"})
      ]_vars

\* C3: when sync_positions_with_broker has returned, the tickers of the store
\* are the tickers the broker reported with a quantity other than 0.
C3_SyncEqualsBrokerNonZero ==
    pc = "synced" =>
        TickersOf(positions) =
            { t \in DOMAIN lastSync.broker : lastSync.broker[t].quantity # 0 }

\* C4: every row of the positions table has a quantity above 0, in every state.
C4_QuantityPositive ==
    \A i \in 1..Len(positions) : positions[i].quantity > 0

\* C5: of the calls of run_daily_check on one date in one process, the first
\* runs the pipeline and every later one is skipped: it fetches nothing,
\* submits no order and leaves the store as it was.
C5_DailyCheckOncePerDate ==
    [][ lastCall' # "-" =>
          IF runs = 0
          THEN lastCall' = "ran" /\ runs' = 1
          ELSE /\ lastCall' = "skipped"
               /\ pc' = "idle"
               /\ UNCHANGED <<positions, trades, ai_score_history, nOrders, runs>>
      ]_vars

\* C5's case: a second call on the date of a run has been skipped
C5_Witness ==
    /\ lastCall = "skipped"
    /\ runs = 1
    /\ last_daily_check_date = today

\* C6: when a daily pass has completed on today's date and the process was
\* started again, the run_daily_check of the startup is skipped and submits
\* no order.
C6_NoRerunAfterRestart ==
    [][ (lastCall' # "-" /\ pc = "synced" /\ today \in completed) =>
          (lastCall' = "skipped" /\ nOrders' = nOrders)
      ]_vars

\* C7: a call of run_daily_check on a date on which a pass of this process
\* aborted runs the pipeline again.
C7_AbortedRunCanRerun ==
    [][ (lastCall' # "-" /\ today \in aborted) => lastCall' = "ran" ]_vars

C10_FinalStatusEndsPoll ==
    \A i \in 1..Len(pollLog) :
        (pollLog[i].op = "query" /\ pollLog[i].info.status \in final_statuses) =>
            /\ i = Len(pollLog)
            /\ pollPc = "returned"
            /\ fill_info.filled_qty = pollLog[i].info.filled_qty
            /\ fill_info.avg_price = pollLog[i].info.avg_price
            /\ fill_info.status = pollLog[i].info.status

\* C10's case: inside the loop, before the timeout, after a query that found
\* the order pending and a sleep, a query returned a final status
C10_Witness ==
    /\ pollPc = "returned"
    /\ elapsed < timeout
    /\ Len(pollLog) >= 3
    /\ pollLog[1].op = "query"
    /\ pollLog[1].info.status = "SUBMITTED"
    /\ pollLog[Len(pollLog)].op = "query"
    /\ pollLog[Len(pollLog)].info.status \in final_statuses
    /\ fill_info.filled_qty > 0

\* C11, as stated: whenever _wait_for_order_fill has returned a result with a
\* final status, partial_fill says 0 < filled_qty < requested_qty.
C11_PartialFlagOnAnyFinalResult ==
    (pollPc = "returned" /\ fill_info.status \in final_statuses) =>
        (fill_info.partial_fill <=>
            (0 < fill_info.filled_qty /\ fill_info.filled_qty < requested_qty))

\* C11, amended: whenever _wait_for_order_fill has returned from inside the
\* poll loop, on a query that found a final status, partial_fill says
\* 0 < filled_qty < requested_qty.
C11_PartialFlagOnLoopReturn ==
    (/\ pollPc = "returned"
     /\ pollLog[Len(pollLog)].op = "query") =>
        /\ fill_info.status \in final_statuses
        /\ fill_info.partial_fill <=>
             (0 < fill_info.filled_qty /\ fill_info.filled_qty < requested_qty)

\* C11's case: the loop returned a final status with nothing filled
C11_Witness ==
    /\ pollPc = "returned"
    /\ pollLog[Len(pollLog)].op = "query"
    /\ fill_info.status = "CANCELLED_ALL"
    /\ fill_info.filled_qty = 0
    /\ ~fill_info.partial_fill

\* C12: the query after the timeout is made once, when the time is up and no
\* query of the loop found a final status, and it is the last thing the
\* tracker does; when it yields data the result is that query's filled
\* quantity, average price and status, partial_fill saying the fill is below
\* the quantity asked for.
C12_TimeoutQueryReported ==
    \A i \in 1..Len(pollLog) :
        pollLog[i].op = "timeout_query" =>
            /\ i = Len(pollLog)
            /\ pollPc = "returned"
            /\ elapsed >= timeout
            /\ \A j \in 1..(i - 1) :
                 /\ pollLog[j].op # "timeout_query"
                 /\ pollLog[j].info.status \notin final_statuses
            /\ pollLog[i].info # NoStatusInfo =>
                 /\ fill_info.filled_qty = pollLog[i].info.filled_qty
                 /\ fill_info.avg_price = pollLog[i].info.avg_price
                 /\ fill_info.status = pollLog[i].info.status
                 /\ fill_info.partial_fill <=>
                      (pollLog[i].info.filled_qty < requested_qty)

\* C12's case: the time ran out on a pending order, the last query found it
\* partly filled
C12_Witness ==
    /\ pollPc = "returned"
    /\ Len(pollLog) >= 3
    /\ pollLog[Len(pollLog)].op = "timeout_query"
    /\ pollLog[Len(pollLog)].info.status = "SUBMITTED"
    /\ fill_info.filled_qty > 0
    /\ fill_info.filled_qty < requested_qty
    /\ fill_info.partial_fill

\* C13: the tracker always returns, and what it returns has status UNKNOWN
\* exactly when the time ran out with no final status seen and the query
\* after the timeout returned nothing; the filled quantity is then 0.
C13_UnknownIffTimeoutQueryFailed ==
    /\ pollPc \in {"loop", "sleep", "returned"}
    /\ pollPc = "returned" =>
         /\ fill_info.status = "UNKNOWN" <=>
              /\ pollLog[Len(pollLog)] = TimeoutQueryEntry(NoStatusInfo)
              /\ elapsed >= timeout
              /\ \A j \in 1..(Len(pollLog) - 1) :
                   pollLog[j].info.status \notin final_statuses
         /\ fill_info.status = "UNKNOWN" => fill_info.filled_qty = 0

\* C13's case: queries of the loop failed, and so did the one after the timeout
C13_Witness ==
    /\ pollPc = "returned"
    /\ fill_info.status = "UNKNOWN"
    /\ Len(pollLog) >= 3
    /\ pollLog[1] = QueryEntry(NoStatusInfo)

\* C14: every call of sync_positions_with_broker returns normally: no error of
\* the store leaves it, and no corrective write is left unmade because
\* another ticker's write failed.
C14_SyncNeverFailsOutright ==
    [][ pc = "start" =>
          /\ pc' = "synced"
          /\ raised' = "-"
          /\ lastSync'.done
      ]_vars

\* C15: a second sync right after a sync, the broker reporting the same and
\* the store untouched in between, writes nothing, reports empty added,
\* removed and updated sets and sends nothing.
C15_SyncTwiceChangesNothing ==
    pc = "synced" =>
        \A addOrder \in Perms(DOMAIN lastSync.broker \ TickersOf(positions)),
           removeOrder \in Perms(TickersOf(positions) \ DOMAIN lastSync.broker),
           commonOrder \in Perms(DOMAIN lastSync.broker \cap TickersOf(positions)) :
            LET again == SyncResult(positions, lastSync.broker, addOrder,
                                    removeOrder, commonOrder, today)
            IN  /\ again.rows = positions
                /\ again.added = {}
                /\ again.removed = {}
                /\ again.updated = {}
                /\ SyncNotified(again.added, again.removed, again.updated) = <<>>

\* C15's case: a sync that added one ticker and updated another has returned
C15_Witness ==
    /\ pc = "synced"
    /\ lastSync.added # {}
    /\ lastSync.updated # {}
    /\ Len(positions) = 2

\* C16: a sync reports as added the broker's tickers the store lacked, as
\* removed the store's tickers the broker lacks, as updated the common tickers
\* whose quantity differed or whose average cost differed by more than 0.01;
\* afterwards the added and updated rows have the broker's quantity and
\* average cost, the removed rows are gone, the other common rows are as
\* they were.
C16_SyncReportAndRows ==
    [][ (pc = "start" /\ pc' = "synced") =>
          LET B == lastSync'.broker
              L == TickersOf(positions)
              changed == { t \in DOMAIN B \cap L :
                             \/ B[t].quantity # get_position(positions, t).quantity
                             \/ AbsDiff(B[t].avg_cost,
                                        get_position(positions, t).avg_cost) > 1 }
          IN  /\ lastSync'.added = DOMAIN B \ L
              /\ lastSync'.removed = L \ DOMAIN B
              /\ lastSync'.updated = changed
              /\ TickersOf(positions') = DOMAIN B
              /\ \A t \in lastSync'.added \cup lastSync'.updated :
                   /\ get_position(positions', t).quantity = B[t].quantity
                   /\ get_position(positions', t).avg_cost = B[t].avg_cost
              /\ \A t \in (DOMAIN B \cap L) \ changed :
                   get_position(positions', t) = get_position(positions, t)
      ]_vars

\* C16's case: a sync has removed one ticker and updated another, whose
\* quantity was the broker's and whose average cost was not
C16_Witness ==
    /\ pc = "synced"
    /\ lastSync.removed # {}
    /\ lastSync.updated # {}
    /\ \E i \in 1..Len(positions) :
         /\ positions[i].ticker \in lastSync.updated
         /\ positions[i].entry_ai_score # None
         /\ positions[i].quantity * 2 = default_quantity

\* C17: in a process nothing but the sync happens before the sync has
\* returned: the first call of run_daily_check follows a sync that has just
\* returned, and every pass, order and later call follows that first call.
C17_SyncBeforeAnyDecision ==
    [][ /\ pc = "start" =>
             /\ pc' \in {"synced", "exited"}
             /\ lastCall' = "-"
             /\ nOrders' = nOrders
        /\ (lastCall' # "-" /\ last_daily_check_date = NoDate) =>
             /\ pc = "synced"
             /\ lastSync.done
        /\ (\/ nOrders' # nOrders
            \/ pc' \in {"buy", "sell_start", "sell", "price"}) =>
             last_daily_check_date' # NoDate
      ]_vars

\* C17's case: a process started again has synced, made its initial check
\* and, in a pass, submitted an order
C17_Witness ==
    /\ restarts = 1
    /\ last_daily_check_date # NoDate
    /\ nOrders > 0
    /\ lastOrder # NoOrder

\* C18: when the broker refuses an order, or the submission raises, the
\* result says success = false and carries a message, the positions and the
\* trades stay as they were, and one error notification is sent.
C18_RejectedOrder ==
    [][ (nOrders' = nOrders + 1 /\ lastOrder'.status = "REJECTED") =>
          /\ ~lastOrder'.result.success
          /\ lastOrder'.result.message.text = "rejected"
          /\ positions' = positions
          /\ trades' = trades
          /\ Cardinality({ i \in 1..Len(notified') : notified'[i].kind = "error" }) = 1
          /\ \A i \in 1..Len(notified') : notified'[i].kind # "trade"
      ]_vars

\* C18's case: the last step's order was refused, the operator was told
C18_Witness ==
    /\ lastOrder.status = "REJECTED"
    /\ lastOrder.side = "BUY"
    /\ Len(notified) = 2
    /\ notified[2] = notify_error("Buy order failed", lastOrder.ticker,
                                  lastOrder.result.message)

\* C19: in the loop of the buy check, of the sell check and of the price
\* check no exception leaves the loop body, and a ticker whose processing
\* failed (an exception caught, an order not booked) is followed by the next
\* ticker of the batch, none of the remaining ones being dropped.
C19_FailureDoesNotAbortBatch ==
    [][ (pc \in {"buy", "sell", "price"}) =>
          /\ raised' # "escaped"
          /\ (raised' = "caught"
                \/ (nOrders' = nOrders + 1 /\ positions' = positions)) =>
                (/\ todo' = Tail(todo)
                 /\ pc' = (IF Tail(todo) # <<>> THEN pc
                           ELSE IF pc = "buy" THEN "sell_start" ELSE "idle"))
      ]_vars

\* C19's case: with a ticker still to go, the store refused the booking of
\* an order that had filled, and the handler of the loop body caught it
C19_Witness ==
    /\ raised = "caught"
    /\ nOrders > 0
    /\ lastOrder.result.success
    /\ pc \in {"buy", "price"}
    /\ todo # <<>>


C21_PassesDoNotInterleave ==
    [][ /\ (pc \in {"buy", "sell_start", "sell"}) => (pc' # "price")
        /\ (pc = "price") =>
             (pc' \notin {"buy", "sell_start", "sell"} /\ lastCall' = "-")
        /\ (pc' = "price" /\ pc # "price") => (pc = "idle")
        /\ (pc' \in {"buy", "sell_start", "sell"}
              /\ pc \notin {"buy", "sell_start", "sell"}) =>
             (pc \in {"synced", "idle"}) ]_vars

\* a price check is selling a position after a daily check bought one the
\* same day
C21_Witness ==
    /\ pc = "price"
    /\ lastOrder.side = "SELL"
    /\ Len(trades) >= 1
    /\ \E i \in 1..Len(trades) : trades[i].action = "BUY"
    /\ today \in completed

\* C22: for a ticker with no position and a score, the signal is BUY exactly
\* when the score reaches the buy threshold and the stored position count is
\* below max_positions; otherwise it is HOLD, with the position-limit reason
\* when the count has reached max_positions (whatever the score) and the
\* score-too-low reason otherwise.
C22_BuyDecision ==
    (/\ analysis.op = "analyze_ticker"
     /\ analysis.ai_score # None
     /\ ~has_position(positions, analysis.ticker))
    => LET signal == analysis.signal
           count == get_position_count(positions)
       IN
       /\ signal.ticker = analysis.ticker
       /\ (signal.action = "BUY") <=>
            (analysis.ai_score >= BUY_SCORE_THRESHOLD /\ count < max_positions)
       /\ (signal.action # "BUY") =>
            /\ signal.action = "HOLD"
            /\ signal.reason = IF count >= max_positions
                               THEN "Max positions reached"
                               ELSE "AI Score below buy threshold"

\* a score at the threshold with the store at its limit: HOLD, position limit
C22_Witness ==
    /\ analysis.op = "analyze_ticker"
    /\ analysis.ai_score = BUY_SCORE_THRESHOLD
    /\ ~has_position(positions, analysis.ticker)
    /\ get_position_count(positions) = max_positions
    /\ analysis.signal.action = "HOLD"
    /\ analysis.signal.reason = "Max positions reached"

\* C23: for a held ticker with a score and a known price, the signal is the
\* first match in the fixed order: SELL (stop loss) if price <= avg_cost *
\* (1 - stop_loss_pct); else SELL (take profit) if price >= avg_cost *
\* (1 + take_profit_pct); else SELL (score dropped) if score is below the
\* sell threshold; else HOLD.
C23_SellDecisionOrder ==
    (/\ analysis.op = "analyze_ticker"
     /\ analysis.ai_score # None
     /\ has_position(positions, analysis.ticker)
     /\ Truthy(analysis.current_price))
    => LET signal == analysis.signal
           price == analysis.current_price
           avg_cost == get_position(positions, analysis.ticker).avg_cost
       IN
       IF price * 100 <= avg_cost * (100 - stop_loss_pct)
       THEN signal.action = "SELL" /\ signal.reason = "Stop loss triggered"
       ELSE IF price * 100 >= avg_cost * (100 + take_profit_pct)
       THEN signal.action = "SELL" /\ signal.reason = "Take profit triggered"
       ELSE IF analysis.ai_score < SELL_SCORE_THRESHOLD
       THEN signal.action = "SELL" /\ signal.reason = "AI Score dropped"
       ELSE signal.action = "HOLD" /\ signal.reason = "No sell signal"

\* the price is under the stop loss and the score is under the sell
\* threshold: the stop loss is the rule returned
C23_Witness ==
    /\ analysis.op = "analyze_ticker"
    /\ has_position(positions, analysis.ticker)
    /\ stop_loss_pct = STOP_LOSS_PCT
    /\ analysis.current_price = 90
    /\ analysis.ai_score = 5
    /\ analysis.signal.reason = "Stop loss triggered"

\* C24: whenever the stop-loss and the take-profit condition both hold for a
\* position, the stop loss is the rule selected: _check_sell_signal returns
\* the stop-loss SELL, and an iteration of the price check submits at most
\* one order and books a take-profit sale only on a quote that is over the
\* take profit and not under the stop loss.
C24_StopLossWins ==
    [][ /\ (/\ analysis'.op = "analyze_ticker"
            /\ analysis'.ai_score # None
            /\ has_position(positions, analysis'.ticker)
            /\ Truthy(analysis'.current_price)
            /\ StopLossHitAt(analysis'.current_price,
                             get_position(positions, analysis'.ticker).avg_cost,
                             stop_loss_pct)
            /\ TakeProfitHitAt(analysis'.current_price,
                               get_position(positions, analysis'.ticker).avg_cost,
                               take_profit_pct))
           => (/\ analysis'.signal.action = "SELL"
               /\ analysis'.signal.reason = "Stop loss triggered")
        /\ (pc = "price") =>
             /\ nOrders' <= nOrders + 1
             /\ Len(trades') <= Len(trades) + 1
             /\ (Len(trades') = Len(trades) + 1
                   /\ trades'[Len(trades')].reason = "Take profit triggered")
                => \E q \in Quotes :
                     /\ TakeProfitHitAt(q, Head(todo).avg_cost, take_profit_pct)
                     /\ ~StopLossHitAt(q, Head(todo).avg_cost, stop_loss_pct) ]_vars

\* with both thresholds at -20 every quote is under the stop loss and over
\* the take profit: the price check has sold a position, as a stop loss, and
\* analyze_ticker gives the stop loss for the position still held
C24_Witness ==
    /\ stop_loss_pct = 0 - 20
    /\ take_profit_pct = 0 - 20
    /\ Len(trades) = 1
    /\ trades[1].action = "SELL"
    /\ trades[1].reason = "Stop loss triggered"
    /\ analysis.op = "analyze_ticker"
    /\ has_position(positions, analysis.ticker)
    /\ analysis.current_price = 120
    /\ analysis.signal.reason = "Stop loss triggered"

\* C25: when the current price is unavailable for a held ticker with a score,
\* neither price rule fires and the score rule still decides: SELL if the
\* score is below the sell threshold, HOLD otherwise.
C25_NoPriceScoreRuleOnly ==
    (/\ analysis.op = "analyze_ticker"
     /\ analysis.ai_score # None
     /\ has_position(positions, analysis.ticker)
     /\ ~Truthy(analysis.current_price))
    => LET signal == analysis.signal IN
       /\ signal.reason \notin {"Stop loss triggered", "Take profit triggered"}
       /\ IF analysis.ai_score < SELL_SCORE_THRESHOLD
          THEN signal.action = "SELL" /\ signal.reason = "AI Score dropped"
          ELSE signal.action = "HOLD" /\ signal.reason = "No sell signal"

\* no price, a score under the threshold: SELL for the score
C25_Witness ==
    /\ analysis.op = "analyze_ticker"
    /\ has_position(positions, analysis.ticker)
    /\ analysis.current_price = None
    /\ analysis.ai_score = 5
    /\ analysis.signal.action = "SELL"
    /\ analysis.signal.reason = "AI Score dropped"

C27_FatalStartupExits ==
    [][ /\ attempt' <= max_retries
        /\ (fatal' = "config") =>
             (pc' = "exited" /\ ~validate_config(env') /\ attempt' = 0 /\ ~connected')
        /\ (fatal' = "broker") =>
             (pc' = "exited" /\ attempt' = max_retries /\ ~connected')
        /\ (fatal \in {"config", "broker"}) =>
             (restarts' = restarts + 1 /\ pc' = "validate")
        /\ (pc' \notin {"validate", "init_db", "connect", "exited"}) =>
             (validate_config(env') /\ connected')
        /\ (~validate_config(env') \/ ~connected') =>
             (/\ lastSync' = NoSync
              /\ lastCall' = "-"
              /\ nOrders' = nOrders
              /\ positions' = positions
              /\ pc' \in {"validate", "init_db", "connect", "exited"}) ]_vars

\* the tenth connection attempt has failed and the process has exited
C27_Witness ==
    /\ fatal = "broker"
    /\ pc = "exited"
    /\ attempt = max_retries
    /\ ~connected
    /\ validate_config(env)

\* C28: every fatal startup error (missing configuration, or broker
\* unreachable after the retries) produces exactly one operator notification,
\* and the process exits.
C28_FatalStartupNotifiesOnce ==
    [][ (fatal = "-" /\ fatal' \in {"config", "broker"}) =>
          (Len(notified') = 1 /\ pc' = "exited") ]_vars

\* C29: every order submitted by the orchestrator produces an operator
\* notification for its ticker: a trade notification when the fill is
\* recorded in the trade log, an error notification otherwise.
C29_EveryOrderNotified ==
    [][ (nOrders' = nOrders + 1) =>
          \E i \in 1..Len(notified') :
            /\ notified'[i].ticker = lastOrder'.ticker
            /\ notified'[i].kind =
                 IF Len(trades') = Len(trades) + 1 THEN "trade" ELSE "error" ]_vars

\* C30: when the requested date is absent from the feed's history, get_score
\* returns a score only from one of the MAX_LOOKBACK_DAYS days before the
\* requested date, and returns not-found when the feed's most recent entry is
\* older than that window.
C30_FallbackWithinWindow ==
    (/\ analysis.op = "get_score"
     /\ analysis.date # None
     /\ analysis.date \notin DOMAIN analysis.history)
    => /\ (analysis.result # NoScore) =>
            /\ analysis.result.date < analysis.date
            /\ analysis.result.date >= analysis.date - MAX_LOOKBACK_DAYS
       /\ (/\ DOMAIN analysis.history # {}
           /\ \A d \in DOMAIN analysis.history :
                d < analysis.date - MAX_LOOKBACK_DAYS)
          => analysis.result = NoScore

\* C31: the trade log is append-only: no step updates or deletes a trade
\* record, so the log after a step has the log before it as a prefix.
C31_TradeLogAppendOnly ==
    [][ /\ Len(trades') >= Len(trades)
        /\ SubSeq(trades', 1, Len(trades)) = trades ]_vars

\* a BUY was logged, and later a SELL of the same ticker after it
C31_Witness ==
    /\ Len(trades) = 2
    /\ trades[1].action = "BUY"
    /\ trades[2].action = "SELL"
    /\ trades[1].ticker = trades[2].ticker


\* C32: in the sell check of the daily pass, an iteration whose score is
\* available and below sell_threshold submits a SELL order for the position's
\* full stored quantity, with or without a current price.
C32_LowScoreSubmitsSell ==
    [][ (/\ analysis'.op = "check_sell"
         /\ analysis'.ai_score # None
         /\ analysis'.ai_score < SELL_SCORE_THRESHOLD)
        => (/\ nOrders' = nOrders + 1
            /\ lastOrder'.side = "SELL"
            /\ lastOrder'.ticker = analysis'.ticker
            /\ lastOrder'.quantity =
                 get_position(positions, analysis'.ticker).quantity) ]_vars


\* C33: an order whose result is a success appends exactly one trade record,
\* with the filled quantity and the average fill price, and mutates the
\* position of its ticker and no other; an order that is rejected, unfilled or
\* UNKNOWN appends no trade record.
C33_SuccessBooksOneTrade ==
    [][ (nOrders' = nOrders + 1)
        => LET result == lastOrder'.result IN
           IF result.success
           THEN /\ Len(trades') = Len(trades) + 1
                /\ SubSeq(trades', 1, Len(trades)) = trades
                /\ trades'[Len(trades')].ticker = lastOrder'.ticker
                /\ trades'[Len(trades')].action = lastOrder'.side
                /\ trades'[Len(trades')].quantity = result.filled_quantity
                /\ trades'[Len(trades')].price = result.price
                /\ positions' # positions
                /\ \A t \in Tickers \ {lastOrder'.ticker} :
                     /\ has_position(positions', t) = has_position(positions, t)
                     /\ has_position(positions, t)
                          => get_position(positions', t) = get_position(positions, t)
           ELSE trades' = trades ]_vars


\* C34: _wait_for_order_fill always terminates: whatever the status queries
\* return, it makes no more queries inside the loop than poll intervals fit in
\* the timeout, at most one query after it, and then returns a result.
C34_PollTerminates ==
    /\ [](/\ Cardinality({i \in 1..Len(pollLog) : pollLog[i].op = "query"})
               <= (timeout + ORDER_POLL_INTERVAL - 1) \div ORDER_POLL_INTERVAL
          /\ Cardinality({i \in 1..Len(pollLog) : pollLog[i].op = "timeout_query"})
               <= 1
          /\ Cardinality({i \in 1..Len(pollLog) : pollLog[i].op = "sleep"})
               <= Cardinality({i \in 1..Len(pollLog) : pollLog[i].op = "query"}))
    /\ <>(pollPc = "returned" /\ fill_info # NoFillInfo)

\* C34's case: a failed query, a query that found the order pending, as many
\* queries as fit in the timeout, and the query after the timeout
C34_Witness ==
    /\ pollPc = "returned"
    /\ timeout = MaxTimeout
    /\ Cardinality({i \in 1..Len(pollLog) : pollLog[i].op = "query"}) = timeout
    /\ pollLog[1] = QueryEntry(NoStatusInfo)
    /\ \E i \in 1..Len(pollLog) :
         pollLog[i].op = "query" /\ pollLog[i].info.status = "SUBMITTED"
    /\ pollLog[Len(pollLog)].op = "timeout_query"


\* C35: add_position on a ticker that has a row keeps one row for it, adds the
\* quantities, sets the average cost to the quantity-weighted average of the
\* old and the new cost (to the cent), and leaves the entry date, the entry
\* score, the target price, the stop-loss and every other row as they were;
\* on a ticker with no row it appends the values it was given.
C35_AddPositionWeightedAverage ==
    analysis.op = "add_position" =>
        LET before == analysis.before
            ticker == analysis.ticker
        IN
        IF has_position(before, ticker)
        THEN LET old == get_position(before, ticker)
                 new == get_position(positions, ticker)
             IN
             /\ Len(positions) = Len(before)
             /\ Cardinality({i \in 1..Len(positions) : positions[i].ticker = ticker}) = 1
             /\ \A i \in 1..Len(before) :
                  before[i].ticker # ticker => positions[i] = before[i]
             /\ new.quantity = old.quantity + analysis.quantity
             /\ new.avg_cost =
                  (old.avg_cost * old.quantity + analysis.avg_cost * analysis.quantity)
                  \div (old.quantity + analysis.quantity)
             /\ new.entry_date = old.entry_date
             /\ new.entry_ai_score = old.entry_ai_score
             /\ new.target_price = old.target_price
             /\ new.stop_loss = old.stop_loss
        ELSE positions =
               Append(before,
                      [ticker |-> ticker, quantity |-> analysis.quantity,
                       avg_cost |-> analysis.avg_cost, entry_date |-> today + 1,
                       entry_ai_score |-> analysis.ai_score,
                       target_price |-> analysis.target_price,
                       stop_loss |-> analysis.stop_loss])


\* C36: a status query of the poll loop that returned nothing neither ends
\* the tracking nor yields a result: the tracker sleeps one poll interval,
\* and as long as the timeout has not elapsed the next thing it does is
\* another query of the loop.
C36_FailedQueryIsRetried ==
    [][ /\ (/\ pollLog' # pollLog
            /\ pollLog'[Len(pollLog')] = QueryEntry(NoStatusInfo))
           => (pollPc' = "sleep" /\ fill_info' = NoFillInfo)
        /\ (/\ pollPc = "sleep"
            /\ pollLog[Len(pollLog)] = QueryEntry(NoStatusInfo))
           => (/\ pollPc' = "loop"
               /\ pollLog' = Append(pollLog, SleepEntry)
               /\ elapsed' = elapsed + ORDER_POLL_INTERVAL
               /\ fill_info' = NoFillInfo)
        /\ (pollPc = "loop" /\ elapsed < timeout)
           => pollLog' = Append(pollLog, QueryEntry(status_info')) ]_vars

\* C36's case: the first query failed, the tracker slept, and the second query
\* found the order filled in full
C36_Witness ==
    /\ pollPc = "returned"
    /\ Len(pollLog) = 3
    /\ pollLog[1] = QueryEntry(NoStatusInfo)
    /\ pollLog[2] = SleepEntry
    /\ pollLog[3].op = "query"
    /\ fill_info.status = "FILLED_ALL"
    /\ fill_info.filled_qty = requested_qty


C38_FailedQueryEmptiesStore ==
    [][ (lastSync'.done /\ lastSync'.query_failed)
        => (/\ positions' = <<>>
            /\ lastSync'.removed = TickersOf(positions)
            /\ lastSync'.added = {}
            /\ lastSync'.updated = {}
            /\ notified' = SyncNotified({}, TickersOf(positions), {})) ]_vars

\* C38's case: the store held both tickers when the query failed
C38_Witness ==
    /\ lastSync.done
    /\ lastSync.query_failed
    /\ lastSync.removed = Tickers
    /\ positions = <<>>
    /\ Len(notified) = 1


\* C39: no step of a daily pass or of a price check takes the number of
\* stored positions from at most max_positions to above it, and none
\* increases a count that is already above; a BUY order is submitted only
\* when the stored count is below max_positions, and only for a ticker that
\* has no stored position.
C39_PassesKeepPositionLimit ==
    [][ /\ (lastSync' = NoSync)
           => (/\ Len(positions) <= max_positions
                    => Len(positions') <= max_positions
               /\ Len(positions) > max_positions
                    => Len(positions') <= Len(positions))
        /\ (nOrders' = nOrders + 1 /\ lastOrder'.side = "BUY")
           => (/\ get_position_count(positions) < max_positions
               /\ ~has_position(positions, lastOrder'.ticker)) ]_vars

\* C39's case: the store is at its limit of one position, bought by the pass
\* that went on to the sell check with a ticker of the top list left unbought
C39_Witness ==
    /\ max_positions = 1
    /\ Len(positions) = 1
    /\ nOrders = 1
    /\ Len(trades) = 1
    /\ trades[1].action = "BUY"
    /\ pc = "sell_start"
    /\ lastSync = NoSync
    /\ lastOrder = NoOrder


\* C40: with a valid configuration and a connection to the broker, main()
\* gets through setup_schedule to the startup notification and the position
\* sync, and every attribute of config that setup_schedule reads is one the
\* configuration defines.
C40_StartupReachesSync ==
    [][ (pc = "setup" /\ validate_config(env) /\ connected)
        => (/\ \A i \in 1..Len(ScheduleReads) : ScheduleReads[i] \in ConfigAttributes
            /\ pc' = AfterStartup
            /\ raised' = "-"
            /\ fatal' = "-") ]_vars

====
